---- MODULE Spec2Model ----
\* A model of velox/exec/GroupingSet.cpp: the hash-based grouping and
\* aggregation orchestrator with its spill and merge-recovery paths.
\*
\* Input rows are [k, v, m]: k stands for the whole grouping key of the row,
\* v for the one argument column of the aggregates, m for the one boolean mask
\* column (read only by the aggregates that have a mask).  The aggregates of a
\* grouping set are a list of AggregateInfo records; the aggregate functions
\* modelled are count and sum.  A group row of a row container is
\* [key, acc, init]: acc holds, per aggregate, what the grouping set keeps for
\* it (the function's accumulator, the values of a distinct aggregation, the
\* rows of an aggregate with sorting keys), init names the accumulators of
\* the row that have been initialized.  Nullable values are sequences:
\* << >> is null and <<x>> is the value x.
EXTENDS Integers, Sequences, FiniteSets, TLC

\* ---------------------------------------------------------------- bounds
MaxKey == 3
MaxVal == 2
MaxBatchRows == 2
MaxBatches == 2
MaxSpillBatchRows == 1
MaxSpillBatches == 3
MaxOutputRows == 2
NumPartitionBits == 1
MaxGroupingSets == 2
MaxPartialBatches == 1

Keys == 1..MaxKey
Vals == 1..MaxVal
Rows == [k : Keys, v : Vals, m : {TRUE}]
Batches == UNION {[1..n -> Rows] : n \in 0..MaxBatchRows}

\* Batches whose mask column is false on some rows.
MaskedRows == [k : Keys, v : Vals, m : BOOLEAN]
\* Longer batches, of rows with one value, for the cut of pre-grouped input.
MaxPreGroupedRows == 3
PreGroupedBatches ==
    UNION {[1..n -> {r \in Rows : r.v = 1}] : n \in 0..MaxPreGroupedRows}

MaskedBatches == UNION {[1..n -> MaskedRows] : n \in 0..MaxBatchRows}

\* ------------------------------------------------- generic sequence helpers
Min(a, b) == IF a < b THEN a ELSE b

RECURSIVE Pow2(_)
Pow2(n) == IF n = 0 THEN 1 ELSE 2 * Pow2(n - 1)

RECURSIVE FoldLeft(_, _, _)
\* f(...f(f(base, s[1]), s[2])..., s[Len(s)])
FoldLeft(f(_, _), base, s) ==
    IF s = << >> THEN base
    ELSE f(FoldLeft(f, base, SubSeq(s, 1, Len(s) - 1)), s[Len(s)])

\* ------------------------------------------------- the aggregate contract
\* (velox/exec/Aggregate.h is consumed as an interface: initializeNewGroups,
\* addRawInput, addIntermediateResults, extractValues, extractAccumulators.)
Null == << >>

InitAccumulator(fn) == IF fn = "count" THEN 0 ELSE Null

AddRawValue(fn, acc, v) ==
    IF fn = "count" THEN acc + 1
    ELSE IF acc = Null THEN <<v>> ELSE <<acc[1] + v>>

\* The intermediate state of count is a number, of sum a nullable number.
AddIntermediateValue(fn, acc, x) ==
    IF fn = "count" THEN acc + x
    ELSE IF x = Null THEN acc
    ELSE IF acc = Null THEN x ELSE <<acc[1] + x[1]>>

\* The value an input column holds for a row when the grouping set consumes
\* intermediate input: the partial state an upstream aggregation produced.
IntermediateOf(fn, v) == IF fn = "count" THEN v ELSE <<v>>

ExtractValue(fn, acc) == acc

ExtractAccumulator(fn, acc) == acc

\* ---------------------------------------------------- constructor arguments
\* AggregateInfo: the function, the distinct flag, whether the aggregate has
\* sorting keys, whether it has a mask channel, what the function answers
\* to supportsToIntermediate(), and the input channels (1 is the column v).
AggregateInfo(fn, distinct, sorted) ==
    [function |-> fn, distinct |-> distinct, sortingKeys |-> sorted,
     mask |-> FALSE, supportsToIntermediate |-> FALSE, inputs |-> <<1>>]

PlainAggregates == <<AggregateInfo("count", FALSE, FALSE), AggregateInfo("sum", FALSE, FALSE)>>

AggregateLists ==
    { << >>,
      PlainAggregates,
      <<AggregateInfo("sum", TRUE, FALSE)>>,
      <<AggregateInfo("sum", FALSE, TRUE)>>,
      <<AggregateInfo("count", FALSE, FALSE), AggregateInfo("sum", TRUE, FALSE)>> }

GroupingSetLists == UNION {[1..n -> 0..MaxGroupingSets] : n \in 0..MaxGroupingSets}

\* numKeys is the number of hashers (0: global aggregation); preGrouped tells
\* whether preGroupedKeys is non-empty; spillConfig whether a spill config was
\* passed; groupIdChannel is 0 when absent, else the 1-based key column.
CtorArgs ==
    [ numKeys : 0..2,
      preGrouped : BOOLEAN,
      aggregates : AggregateLists,
      isPartial : BOOLEAN,
      isRawInput : BOOLEAN,
      globalGroupingSets : GroupingSetLists,
      groupIdChannel : 0..2,
      spillConfig : BOOLEAN ]

NoArgs ==
    [ numKeys |-> 0, preGrouped |-> FALSE, aggregates |-> << >>,
      isPartial |-> FALSE, isRawInput |-> FALSE, globalGroupingSets |-> << >>,
      groupIdChannel |-> 0, spillConfig |-> FALSE ]

\* What the hash table tells about itself: its hash mode, the capacity and
\* the number of distinct keys of its stats, and the bytes it has allocated.
\* What ensureInputFits reads of the pool, the spill config, the table and the
\* batch (lines 874-894); sizeIncrement is the answer of
\* RowContainer::sizeIncrement.  known tells whether the numbers are modelled.
NoMemory ==
    [ known |-> FALSE, currentUsage |-> 0, minSpillableReservationPct |-> 0,
      spillableReservationGrowthPct |-> 0, availableReservationBytes |-> 0,
      tableIncrementBytes |-> 0, sizeIncrement |-> 0, freeRows |-> 0,
      outOfLineFreeBytes |-> 0, retainedSize |-> 0, flatBytes |-> 0,
      inputSize |-> 0 ]

\* No layout computed yet.
NoLayout ==
    [setOffsets |-> << >>, rowSizeOffset |-> 0,
     allocateFixed |-> [size |-> 0, alignment |-> 0]]

\* A call that allocated no scratch row.
NoScratchRows ==
    [created |-> 0, initialized |-> << >>, erased |-> 0, converted |-> {}]

NoStats ==
    [hashMode |-> "hash", capacity |-> 0, numDistinct |-> 0,
     allocatedBytes |-> 0]

\* ------------------------------------------------------------------ state
VARIABLES
    phase,            \* "Uninitialized", "Constructed" or "ConstructFailed"
    args,             \* the arguments of the constructor call
    cfg,              \* the immutable members set by the constructor
    tableExists,      \* table_ != nullptr
    table,            \* the rows of table_->rows(), in row-container order
    numInputRows,     \* numInputRows_
    noMoreInput,      \* noMoreInput_
    hasRemaining,     \* remainingInput_ != nullptr
    remainingInput,   \* remainingInput_
    firstRemainingRow,\* firstRemainingRow_ (0-based)
    inputSpiller,     \* inputSpiller_ != nullptr
    outputSpiller,    \* outputSpiller_ != nullptr
    spillFiles,       \* per partition, the finished files of the spiller
    numDistinctSpillFilesPerPartition,
    spillFinished,    \* finishSpill() was called on the active spiller
    spillPartitionSet,
    outputSpillPartition,
    hasMerge,         \* merge_ != nullptr
    merge,            \* the streams of merge_: what is left of each file
    mergeRowsExists,  \* mergeRows_ != nullptr
    globalAggregationInitialized,
    globalRow,        \* the accumulators of the single global group
    error,            \* "none", or the check that failed in the last call
    iterator,         \* the caller's RowContainerIterator
    ret,              \* what the last getOutput returned: "none", "true", "false", "error"
    result,           \* the rows the last getOutput placed in result
    emitted,          \* every row placed in a result so far
    reference,        \* the reference aggregator over every input row
    accumulated,      \* number of input rows probed and accumulated so far
    numBatches,       \* number of addInput calls so far
    numDenied,        \* number of reservations the pool denied so far
    numGlobalInit,    \* number of times the global row was allocated
    preSpillKeys,     \* the keys the table held when the first spill ran
    spilledAfterDenial, \* an explicit spill() ran after a denied reservation
    outputReservation, \* the reservation ensureOutputFits obtained is still held
    abandonedPartialAggregation, \* abandonedPartialAggregation_
    allSupportToIntermediate, \* allSupportToIntermediate_
    intermediateRowsExists, \* intermediateRows_ != nullptr
    intermediateAccumulators, \* the accumulators of intermediateRows_
    intermediateRows, \* the number of rows intermediateRows_ holds
    lastInput, \* the batch passed to the last toIntermediate call (or logged addInput)
    tableStats, \* table_->hashMode(), table_->stats() and table_->allocatedBytes()
    numRehashes, \* decideHashMode calls of the last isPartialFull call
    maxBytesArg, \* the maxBytes of the last isPartialFull call
    uninitializedUse, \* a call read an accumulator that was never initialized
    sortedInputRows, \* the input rows sortedAggregations_ holds in its buffers
    allocatorFrozen, \* the string allocator of the row container is frozen
    allocatorMisuse, \* what was done in the wrong state of the string allocator
    nonReclaimableSection, \* *nonReclaimableSection_ as a call of the grouping set sees it
    sectionMisuse, \* what ran in the wrong state of *nonReclaimableSection_
    numFinishSpill, \* the number of finishSpill calls so far
    openedPartitions, \* the partitions a reader was created for, in order
    getOutputTick, \* flipped by every getOutput call of a caller that drains the output
    lastAddCalls, \* the calls that handed input to an aggregate in the last operation
    lastMemory, \* what the last addInput call saw of the pool and the row container
    lastReserveCalls, \* the amounts the last call passed to maybeReserve
    lastScratchReads, \* the scratch groups the last toIntermediate call extracted, per aggregate
    lastOutOfRange, \* the last call evaluated an element that its vector does not hold
    mergeRowsData, \* the rows mergeRows_ holds between two calls
    lastScratchRows, \* the scratch rows the last toIntermediate call allocated, initialized and erased
    accumulatorsArg, \* the accumulators given to the layout of the global row
    globalLayout, \* the layout of the global row: offsets, flag bits, size and alignment
    lastOp            \* the operation that ran last

vars ==
    << phase, args, cfg, tableExists, table, numInputRows, noMoreInput,
       hasRemaining, remainingInput, firstRemainingRow, inputSpiller,
       outputSpiller, spillFiles, numDistinctSpillFilesPerPartition,
       spillFinished, spillPartitionSet, outputSpillPartition, hasMerge, merge,
       mergeRowsExists, globalAggregationInitialized, globalRow, error,
       iterator, ret, result, emitted, reference, accumulated, numBatches,
       numDenied, numGlobalInit, preSpillKeys, spilledAfterDenial,
       outputReservation,
       abandonedPartialAggregation,
       allSupportToIntermediate,
       intermediateRowsExists,
       intermediateAccumulators,
       intermediateRows,
       lastInput,
       tableStats,
       numRehashes,
       maxBytesArg,
       uninitializedUse,
       sortedInputRows,
       allocatorFrozen,
       allocatorMisuse,
       nonReclaimableSection,
       sectionMisuse,
       numFinishSpill,
       openedPartitions,
       getOutputTick,
       lastAddCalls,
       lastMemory,
       lastReserveCalls,
       lastScratchReads,
       lastOutOfRange,
       mergeRowsData,
       lastScratchRows,
       accumulatorsArg,
       globalLayout, lastOp >>

\* The mutable members (and the bookkeeping of the run) as one record, so that
\* a method that calls other methods is the composition of their effects.
Self ==
    [ tableExists |-> tableExists, table |-> table,
      numInputRows |-> numInputRows, noMoreInput |-> noMoreInput,
      hasRemaining |-> hasRemaining, remainingInput |-> remainingInput,
      firstRemainingRow |-> firstRemainingRow,
      inputSpiller |-> inputSpiller, outputSpiller |-> outputSpiller,
      spillFiles |-> spillFiles,
      numDistinctSpillFilesPerPartition |-> numDistinctSpillFilesPerPartition,
      spillFinished |-> spillFinished,
      spillPartitionSet |-> spillPartitionSet,
      outputSpillPartition |-> outputSpillPartition,
      hasMerge |-> hasMerge, merge |-> merge,
      mergeRowsExists |-> mergeRowsExists,
      globalAggregationInitialized |-> globalAggregationInitialized,
      globalRow |-> globalRow, error |-> error, iterator |-> iterator,
      ret |-> ret, result |-> result, emitted |-> emitted,
      accumulated |-> accumulated, numDenied |-> numDenied,
      numGlobalInit |-> numGlobalInit, preSpillKeys |-> preSpillKeys,
      outputReservation |-> outputReservation,
      abandonedPartialAggregation |-> abandonedPartialAggregation,
      allSupportToIntermediate |-> allSupportToIntermediate,
      intermediateRowsExists |-> intermediateRowsExists,
      intermediateAccumulators |-> intermediateAccumulators,
      intermediateRows |-> intermediateRows,
      lastInput |-> lastInput,
      tableStats |-> tableStats,
      numRehashes |-> numRehashes,
      maxBytesArg |-> maxBytesArg,
      uninitializedUse |-> uninitializedUse,
      sortedInputRows |-> sortedInputRows,
      allocatorFrozen |-> allocatorFrozen,
      allocatorMisuse |-> allocatorMisuse,
      nonReclaimableSection |-> nonReclaimableSection,
      sectionMisuse |-> sectionMisuse,
      reserving |-> FALSE,
      numFinishSpill |-> numFinishSpill,
      openedPartitions |-> openedPartitions,
      getOutputTick |-> getOutputTick,
      addCalls |-> {}, mayPushdown |-> FALSE, lazyNotLoaded |-> FALSE,
      memory |-> NoMemory, reserveCalls |-> << >>,
      scratchReads |-> {},
      outOfRange |-> FALSE,
      mergeRowsData |-> mergeRowsData,
      scratchRows |-> NoScratchRows,
      accumulatorsArg |-> accumulatorsArg,
      globalLayout |-> globalLayout,
      undefined |-> {}, attempted |-> FALSE, flag |-> FALSE ]

Commit(s) ==
    /\ tableExists' = s.tableExists
    /\ table' = s.table
    /\ numInputRows' = s.numInputRows
    /\ noMoreInput' = s.noMoreInput
    /\ hasRemaining' = s.hasRemaining
    /\ remainingInput' = s.remainingInput
    /\ firstRemainingRow' = s.firstRemainingRow
    /\ inputSpiller' = s.inputSpiller
    /\ outputSpiller' = s.outputSpiller
    /\ spillFiles' = s.spillFiles
    /\ numDistinctSpillFilesPerPartition' = s.numDistinctSpillFilesPerPartition
    /\ spillFinished' = s.spillFinished
    /\ spillPartitionSet' = s.spillPartitionSet
    /\ outputSpillPartition' = s.outputSpillPartition
    /\ hasMerge' = s.hasMerge
    /\ merge' = s.merge
    /\ mergeRowsExists' = s.mergeRowsExists
    /\ globalAggregationInitialized' = s.globalAggregationInitialized
    /\ globalRow' = s.globalRow
    /\ error' = s.error
    /\ iterator' = s.iterator
    /\ ret' = s.ret
    /\ result' = s.result
    /\ emitted' = s.emitted
    /\ accumulated' = s.accumulated
    /\ numDenied' = s.numDenied
    /\ numGlobalInit' = s.numGlobalInit
    /\ preSpillKeys' = s.preSpillKeys
    /\ globalLayout' = s.globalLayout
    /\ accumulatorsArg' = s.accumulatorsArg
    /\ lastScratchRows' = s.scratchRows
    /\ mergeRowsData' = s.mergeRowsData
    /\ lastOutOfRange' = s.outOfRange
    /\ lastScratchReads' = s.scratchReads
    /\ lastReserveCalls' = s.reserveCalls
    /\ lastMemory' = s.memory
    /\ lastAddCalls' = s.addCalls
    /\ getOutputTick' = s.getOutputTick
    /\ openedPartitions' = s.openedPartitions
    /\ numFinishSpill' = s.numFinishSpill
    /\ sectionMisuse' = s.sectionMisuse
    /\ nonReclaimableSection' = s.nonReclaimableSection
    /\ allocatorMisuse' = s.allocatorMisuse
    /\ allocatorFrozen' = s.allocatorFrozen
    /\ sortedInputRows' = s.sortedInputRows
    /\ uninitializedUse' = s.uninitializedUse
    /\ maxBytesArg' = s.maxBytesArg
    /\ numRehashes' = s.numRehashes
    /\ tableStats' = s.tableStats
    /\ lastInput' = s.lastInput
    /\ intermediateRows' = s.intermediateRows
    /\ intermediateAccumulators' = s.intermediateAccumulators
    /\ intermediateRowsExists' = s.intermediateRowsExists
    /\ allSupportToIntermediate' = s.allSupportToIntermediate
    /\ abandonedPartialAggregation' = s.abandonedPartialAggregation
    /\ outputReservation' = s.outputReservation

\* A failed VELOX_CHECK: the call throws; the first failure is the one seen.
Fail(s, what) == IF s.error = "none" THEN [s EXCEPT !.error = what] ELSE s

\* ------------------------------------------ the variable-length allocator
\* rows->stringAllocator().freezeAndExecute(f) freezes the allocator, runs f
\* and unfreezes it; freezing a frozen allocator fails a check.
freeze(s) ==
    IF s.allocatorFrozen THEN Fail(s, "freeze: the allocator is frozen")
    ELSE [s EXCEPT !.allocatorFrozen = TRUE]

\* A freezeAndExecute that leaves the allocator frozen.
unfreezeSkipped(s) == s

unfreeze(s) == [s EXCEPT !.allocatorFrozen = FALSE]

Misuse(s, what) == [s EXCEPT !.allocatorMisuse = @ \cup {what}]

SectionMisuse(s, what) == [s EXCEPT !.sectionMisuse = @ \cup {what}]

\* A call of an accumulator of this grouping set (initialize, add, extract):
\* it may allocate or free variable-length memory.
accumulatorCall(s) ==
    LET s1 == IF s.allocatorFrozen
              THEN Misuse(s, "accumulator call while frozen") ELSE s
    IN IF s1.nonReclaimableSection THEN s1
       ELSE SectionMisuse(s1, "accumulator call in a reclaimable section")

\* The write of a spiller, which may run on several threads.
spillWrite(s) ==
    IF s.allocatorFrozen THEN s ELSE Misuse(s, "spill write while not frozen")

\* table_->clear(freeTable = true)
clearTable(s) ==
    [(IF s.allocatorFrozen THEN Misuse(s, "table cleared while frozen") ELSE s)
        EXCEPT !.table = << >>]

NumPartitions == Pow2(NumPartitionBits)

Partitions == 0..(NumPartitions - 1)

\* ------------------------------------------------------------ constructor
HasSortingKeys(aggregates) ==
    \E i \in DOMAIN aggregates : aggregates[i].sortingKeys

HasDistinct(aggregates) ==
    \E i \in DOMAIN aggregates : aggregates[i].distinct

\* A constructor that rejects partial aggregation over sorted inputs only.
ConstructorCheckSortedOnly(a) ==
    IF a.isPartial /\ HasSortingKeys(a.aggregates)
    THEN "Partial aggregations over sorted inputs are not supported"
    ELSE "none"

\* The checks of the constructor: the user error it raises, or "none".
ConstructorCheck(a) ==
    IF a.isPartial /\ HasSortingKeys(a.aggregates)
    THEN "Partial aggregations over sorted inputs are not supported"
    ELSE IF a.isPartial /\ HasDistinct(a.aggregates)
    THEN "Partial aggregations over distinct inputs are not supported"
    ELSE "none"

\* How many times the input lists of the aggregates name a channel.
channelUseCount(aggregates, channel) ==
    Cardinality(UNION {{<<i, j>> : j \in {k \in DOMAIN aggregates[i].inputs :
                                              aggregates[i].inputs[k] = channel}} :
                       i \in DOMAIN aggregates})

\* A test that passes when a channel is named by one aggregate or by two.
allAreReferencedTwiceAtMost(argList, aggregates) ==
    \A j \in DOMAIN argList : channelUseCount(aggregates, argList[j]) <= 2

allAreSinglyReferenced(argList, aggregates) ==
    \A j \in DOMAIN argList : channelUseCount(aggregates, argList[j]) = 1

Members(a) ==
    [ numKeys |-> a.numKeys,
      isGlobal |-> (a.numKeys = 0),
      isPartial |-> a.isPartial,
      isRawInput |-> a.isRawInput,
      preGrouped |-> a.preGrouped,
      aggregates |-> a.aggregates,
      globalGroupingSets |-> a.globalGroupingSets,
      groupIdChannel |-> a.groupIdChannel,
      spillConfig |-> a.spillConfig,
      mayPushdown |->
          [i \in DOMAIN a.aggregates |->
              allAreSinglyReferenced(a.aggregates[i].inputs, a.aggregates)],
      sortedAggregations |-> HasSortingKeys(a.aggregates),
      distinctAggregations |->
          [i \in DOMAIN a.aggregates |-> a.aggregates[i].distinct] ]

NoMembers == Members(NoArgs)

isDistinct == cfg.aggregates = << >>

\* ------------------------------------------------ the keyed grouping store
NumDistinct(rows) == Len(rows)

RowIndex(rows, k) ==
    LET hit == {i \in DOMAIN rows : rows[i].key = k}
    IN IF hit = {} THEN 0 ELSE CHOOSE i \in hit : TRUE

\* The aggregates by kind: the loops over aggregates_ skip those with
\* sorting keys first and then tell the distinct ones from the plain ones.
SortedAggregates ==
    {i \in DOMAIN cfg.aggregates : cfg.aggregates[i].sortingKeys}

DistinctAggregates ==
    {i \in DOMAIN cfg.aggregates \ SortedAggregates : cfg.aggregates[i].distinct}

NonSortedAggregates == DOMAIN cfg.aggregates \ SortedAggregates

PlainAggregateIndices == NonSortedAggregates \ DistinctAggregates

FunctionSlots(S) == {<<"function", i>> : i \in S}

\* What acc holds for aggregate i once initialized: the function's initial
\* accumulator for a plain aggregate, the empty set of values for a distinct
\* aggregation, the empty list of rows for an aggregate with sorting keys.
InitialAccumulator(i) ==
    IF i \in SortedAggregates THEN << >>
    ELSE IF i \in DistinctAggregates THEN {}
    ELSE InitAccumulator(cfg.aggregates[i].function)

\* RowContainer::newRow: a row none of whose accumulators is initialized;
\* init names the accumulators of the row that are.
newRow(k) ==
    [ key |-> k,
      acc |-> [i \in DOMAIN cfg.aggregates |-> InitialAccumulator(i)],
      init |-> {} ]

\* SortedAggregations::initializeNewGroups and
\* DistinctAggregations::initializeNewGroups: the adapter initializes its own
\* accumulator and the function accumulators of the aggregates it serves.
SortedInitializeNewGroups ==
    IF cfg.sortedAggregations
    THEN {<<"sorted", 0>>} \cup FunctionSlots(SortedAggregates) ELSE {}

DistinctInitializeNewGroups(i) == {<<"distinct", i>>, <<"function", i>>}

\* A new group of the keyed probe after the initializeNewGroups calls of
\* addInputForActiveRows: the distinct aggregations', the plain functions'
\* (made before the test of the mask) and sortedAggregations_'.
InitializeNewGroup(k) ==
    [newRow(k) EXCEPT
        !.init = FunctionSlots(PlainAggregateIndices)
                     \cup UNION {DistinctInitializeNewGroups(i) :
                                    i \in DistinctAggregates}
                     \cup SortedInitializeNewGroups]

\* A selection that leaves the masks out.
SelectedAll(i, r) == TRUE

\* getSelectivityVector(i) at one row: an aggregate without a mask sees every
\* active row, one with a mask the rows whose mask column is true.
Selected(i, r) == cfg.aggregates[i].mask => r.m

\* One input row added to the accumulators of its group: sortedAggregations_
\* takes every active row; a distinct aggregation and a plain function take the
\* rows their mask selects (addInput, addRawInput / addIntermediateResults).
Accumulate(acc, r) ==
    [i \in DOMAIN acc |->
        IF i \in SortedAggregates THEN Append(acc[i], r.v)
        ELSE IF ~Selected(i, r) THEN acc[i]
        ELSE IF i \in DistinctAggregates THEN acc[i] \cup {r.v}
        ELSE IF cfg.isRawInput
        THEN AddRawValue(cfg.aggregates[i].function, acc[i], r.v)
        ELSE AddIntermediateValue(
                 cfg.aggregates[i].function, acc[i],
                 IntermediateOf(cfg.aggregates[i].function, r.v))]

\* ---------------------------------------------------------- the add calls
\* The argument vectors of aggregate i are all lazy and not loaded:
\* lazyNotLoaded tells it of the column v of the batch.
areAllLazyNotLoaded(s, i) ==
    \A j \in DOMAIN cfg.aggregates[i].inputs : s.lazyNotLoaded

\* One call that hands input to an aggregate: the path it is made on, the
\* aggregate, the accumulator family that takes it (the function's own add,
\* the distinct aggregation's, or sortedAggregations_'), the positions of the
\* rows passed, whether the vector passed is activeRows_ itself, and the
\* pushdown argument; with them, what the caller passed as mayPushdown and
\* whether the argument vectors were lazy and not loaded.
AddCall(s, path, i, family, rows, isActiveRows, pushdown) ==
    [ path |-> path, agg |-> i, family |-> family, rows |-> rows,
      isActiveRows |-> isActiveRows, pushdown |-> pushdown,
      mayPushdown |-> s.mayPushdown,
      lazyNotLoaded |-> areAllLazyNotLoaded(s, i) ]

\* getSelectivityVector(i) over the active positions of a batch.
getSelectivityVector(i, input, active) ==
    {j \in active : Selected(i, input[j])}

\* The add calls of addInputForActiveRows over the positions from + 1 .. to.
keyedAddCalls(s, input, from, to) ==
    LET active == (from + 1)..to
        rows(i) == getSelectivityVector(i, input, active)
        canPushdown(i) ==
            /\ ~cfg.aggregates[i].mask
            /\ s.mayPushdown
            /\ cfg.mayPushdown[i]
            /\ areAllLazyNotLoaded(s, i)
    IN {AddCall(s, "keyed", i, "distinct", rows(i), ~cfg.aggregates[i].mask, FALSE) :
           i \in {j \in DistinctAggregates : rows(j) # {}}}
       \cup {AddCall(s, "keyed", i, "function", rows(i), ~cfg.aggregates[i].mask,
                     canPushdown(i)) :
                 i \in {j \in PlainAggregateIndices : rows(j) # {}}}
       \cup {AddCall(s, "keyed", i, "sorted", active, TRUE, FALSE) :
                 i \in SortedAggregates}

\* The add calls of addGlobalAggregationInput.
globalAddCalls(s, input) ==
    LET active == 1..Len(input)
        rows(i) == getSelectivityVector(i, input, active)
        canPushdown(i) ==
            /\ s.mayPushdown
            /\ cfg.mayPushdown[i]
            /\ areAllLazyNotLoaded(s, i)
    IN {AddCall(s, "global", i, "distinct", rows(i), ~cfg.aggregates[i].mask, FALSE) :
           i \in {j \in DistinctAggregates : rows(j) # {}}}
       \cup {AddCall(s, "global", i, "function", rows(i), ~cfg.aggregates[i].mask,
                     canPushdown(i)) :
                 i \in {j \in PlainAggregateIndices : rows(j) # {}}}
       \cup {AddCall(s, "global", i, "sorted", active, TRUE, FALSE) :
                 i \in SortedAggregates}

\* The add calls of updateRow: the function of every aggregate without
\* sorting keys takes the row of the stream as an intermediate result, and
\* sortedAggregations_ takes it when there are sorted aggregates.
mergeAddCalls(s) ==
    {AddCall(s, "merge", i, "function", {1}, FALSE, FALSE) :
        i \in NonSortedAggregates}
    \cup {AddCall(s, "merge", i, "sorted", {1}, FALSE, FALSE) :
              i \in SortedAggregates}

\* A probe that never finds an existing group.
ProbeRowAppend(rows, r) ==
    LET with == Append(rows, InitializeNewGroup(r.k))
    IN [with EXCEPT ![Len(with)].acc = Accumulate(@, r)]

\* groupProbe of one row followed by the aggregates' update of its group: a
\* row whose key is new appends a freshly initialized group.
ProbeRow(rows, r) ==
    LET at == RowIndex(rows, r.k)
        with == IF at = 0 THEN Append(rows, InitializeNewGroup(r.k)) ELSE rows
        g == IF at = 0 THEN Len(with) ELSE at
    IN [with EXCEPT ![g].acc = Accumulate(@, r)]

createHashTable(s) == [s EXCEPT !.tableExists = TRUE, !.table = << >>]

\* ------------------------------------------------------------------ spill
Partition(k) == k % NumPartitions

KeyLess(a, b) == a.key < b.key

\* The rows of one partition as they are written: sorted by key, accumulators
\* in their intermediate (spill) form.
SpillRun(rows, p) ==
    SortSeq(SelectSeq(rows, LAMBDA g : Partition(g.key) = p), KeyLess)

\* AggregationInputSpiller::spill: every non-empty partition of the row
\* container gets one more finished, sorted file.
InputSpillerSpill(files, rows) ==
    [i \in DOMAIN files |->
        IF SpillRun(rows, i - 1) = << >> THEN files[i]
        ELSE Append(files[i], SpillRun(rows, i - 1))]

NoFiles == [i \in 1..NumPartitions |-> << >>]

RECURSIVE SumSeq(_)
SumSeq(s) == IF s = << >> THEN 0 ELSE s[1] + SumSeq(Tail(s))

\* A spill that leaves the buffers of sortedAggregations_ as they are.
clearSortedAggregationsSkipped(s) == s

\* sortedAggregations_->clear(), when there are sorted aggregates.
clearSortedAggregations(s) ==
    IF cfg.sortedAggregations THEN [s EXCEPT !.sortedInputRows = 0] ELSE s

\* A test that lets a table without groups through.
spillHasNothingNoTable(s) == ~s.tableExists

\* The test of the early return of spill(): no table, or a table without
\* groups.
spillHasNothing(s) == ~s.tableExists \/ NumDistinct(s.table) = 0

\* A test that records the file counts at every spill.
recordsDistinctFilesAlways(s) == isDistinct

\* The test before the file counts are recorded (1037): no aggregates, and
\* no counts yet.
recordsDistinctFiles(s) ==
    isDistinct /\ s.numDistinctSpillFilesPerPartition = << >>

spill(s) ==
    IF spillHasNothing(s) THEN s
    ELSE IF s.outputSpiller THEN Fail(s, "spill: outputSpiller_ is not null")
    ELSE IF ~s.inputSpiller /\ s.numDistinctSpillFilesPerPartition # << >>
    THEN Fail(s, "spill: numDistinctSpillFilesPerPartition_ is not empty")
    ELSE
      LET files == InputSpillerSpill(s.spillFiles, s.table)
          record == recordsDistinctFiles(s)
          counts == [i \in 1..NumPartitions |-> Len(files[i])]
      IN IF record /\ SumSeq(counts) = 0
         THEN Fail(s, "spill: totalNumDistinctSpilledFiles is 0")
         ELSE
           LET written == [spillWrite(freeze(s)) EXCEPT
                              !.inputSpiller = TRUE,
                              !.spillFiles = files,
                              !.preSpillKeys =
                                  IF s.inputSpiller THEN @
                                  ELSE {s.table[i].key : i \in DOMAIN s.table}]
               recorded == [unfreeze(written) EXCEPT
                              !.numDistinctSpillFilesPerPartition =
                                  IF record THEN counts ELSE @]
           IN clearTable(clearSortedAggregations(recorded))

\* ------------------------------------------------------ memory reservation
PoolOutcomes ==
    {"sufficient", "granted", "denied", "reclaimGranted", "reclaimDenied"}

\* memory::ReclaimableSectionGuard guard(nonReclaimableSection_): the flag is
\* cleared for the scope of the guard and then set back to what it was.
enterReclaimableSection(s) == [s EXCEPT !.nonReclaimableSection = FALSE]

\* A guard that leaves the section reclaimable.
leaveReclaimableSectionSkipped(s, old) == s

leaveReclaimableSection(s, old) == [s EXCEPT !.nonReclaimableSection = old]

\* The arbitrator asks the operator to reclaim while a call of the grouping
\* set runs: the operator spills only outside a non-reclaimable section.
reclaim(s, point) ==
    IF s.nonReclaimableSection THEN s
    ELSE spill(IF point = "reservation" THEN s ELSE SectionMisuse(s, point))

\* pool_.maybeReserve(...) or testingRunArbitration under the guard: the
\* arbitration it runs may reclaim from this operator.
reserve(s, pool) ==
    LET old == s.nonReclaimableSection
        s1 == IF s.reserving THEN SectionMisuse(s, "nested reservation") ELSE s
        arbitrate(s2) ==
            IF pool \in {"reclaimGranted", "reclaimDenied"}
            THEN reclaim(s2, "reservation") ELSE s2
    IN leaveReclaimableSection(
           [arbitrate(enterReclaimableSection([s1 EXCEPT !.reserving = TRUE]))
               EXCEPT !.reserving = FALSE],
           old)

\* ensureInputFits, lines 887-894: the numbers derived from what was read.
minReservationBytes(m) ==
    (m.currentUsage * m.minSpillableReservationPct) \div 100

outOfLineBytes(m) == m.retainedSize - m.outOfLineFreeBytes

incrementBytes(m) == m.sizeIncrement + m.tableIncrementBytes

Max(a, b) == IF a >= b THEN a ELSE b

\* A test that takes twice the increment for enough.
hasSufficientReservationAtTwice(m) ==
    /\ m.availableReservationBytes >= minReservationBytes(m)
    /\ \/ /\ m.tableIncrementBytes = 0
          /\ m.freeRows > m.inputSize
          /\ \/ outOfLineBytes(m) = 0
             \/ m.outOfLineFreeBytes >= m.flatBytes * 2
       \/ m.availableReservationBytes >= 2 * incrementBytes(m)

\* Lines 897-917: the two returns without a reservation.
hasSufficientReservation(m) ==
    /\ m.availableReservationBytes >= minReservationBytes(m)
    /\ \/ /\ m.tableIncrementBytes = 0
          /\ m.freeRows > m.inputSize
          /\ \/ outOfLineBytes(m) = 0
             \/ m.outOfLineFreeBytes >= m.flatBytes * 2
       \/ m.availableReservationBytes > 2 * incrementBytes(m)

\* Lines 922-924.
targetIncrementBytes(m) ==
    Max(incrementBytes(m) * 2,
        (m.currentUsage * m.spillableReservationGrowthPct) \div 100)

\* A reservation whose denial throws.
ensureInputFitsOrThrow(s, pool) ==
    IF cfg.isPartial \/ ~cfg.spillConfig THEN s
    ELSE IF NumDistinct(s.table) = 0 \/ pool = "sufficient" THEN s
    ELSE
      LET s1 == IF pool \in {"reclaimGranted", "reclaimDenied"}
                THEN spill([s EXCEPT !.attempted = TRUE])
                ELSE [s EXCEPT !.attempted = TRUE]
      IN IF pool \in {"granted", "reclaimGranted"} THEN s1
         ELSE Fail([s1 EXCEPT !.numDenied = @ + 1], "Failed to reserve")

\* An ensureInputFits that does not return early for a partial aggregation.
ensureInputFitsPartialToo(s, pool) ==
    IF ~cfg.spillConfig THEN s
    ELSE IF NumDistinct(s.table) = 0 THEN s
    ELSE IF pool = "sufficient" THEN s
    ELSE
      LET s1 == IF pool \in {"reclaimGranted", "reclaimDenied"}
                THEN spill([s EXCEPT !.attempted = TRUE])
                ELSE [s EXCEPT !.attempted = TRUE]
      IN IF pool \in {"granted", "reclaimGranted"} THEN s1
         ELSE [s1 EXCEPT !.numDenied = @ + 1]

\* pool tells what the memory pool does in this call: "sufficient" when the
\* reservation held already covers the batch, else whether maybeReserve grants
\* or denies the increment, and whether the arbitration it runs reclaims from
\* this operator, which calls spill().
\* While the numbers are not modelled, pool = "sufficient" says that the
\* reservation held covers the batch; when they are, the tests of lines
\* 897-917 decide and the amount passed to maybeReserve is logged.
ensureInputFits(s, pool) ==
    IF cfg.isPartial \/ ~cfg.spillConfig THEN s
    ELSE IF NumDistinct(s.table) = 0 THEN s
    ELSE IF ~s.memory.known /\ pool = "sufficient" THEN s
    ELSE IF s.memory.known /\ hasSufficientReservation(s.memory) THEN s
    ELSE
      LET reserved(s1) ==
              IF pool \in {"granted", "reclaimGranted"} THEN s1
              ELSE [s1 EXCEPT !.numDenied = @ + 1]
      IN reserved(reserve(
             [s EXCEPT !.attempted = TRUE,
                       !.reserveCalls =
                           IF s.memory.known
                           THEN Append(@, targetIncrementBytes(s.memory))
                           ELSE @],
             pool))

\* ------------------------------------------------------------------ input
RECURSIVE ProbeRows(_, _, _, _)
\* The rows input[from + 1 .. to] probed and accumulated in order.
ProbeRows(rows, input, from, to) ==
    IF from >= to THEN rows
    ELSE ProbeRow(ProbeRows(rows, input, from, to - 1), input[to])

\* The active rows are the 0-based positions [from, to) of input.
addInputForActiveRows(s, input, from, to, pool) ==
    LET s1 == IF ~s.tableExists THEN createHashTable(s) ELSE s
        probe(s2) ==
            IF s2.error # "none" \/ from >= to THEN s2
            ELSE [accumulatorCall(
                      reclaim(s2, "between the probe and the accumulator updates"))
                    EXCEPT
                      !.table = ProbeRows(@, input, from, to),
                      !.addCalls = @ \cup keyedAddCalls(s, input, from, to),
                      !.sortedInputRows =
                          IF cfg.sortedAggregations THEN @ + (to - from) ELSE @,
                      !.accumulated = @ + (to - from)]
    IN probe(ensureInputFits(s1, pool))

\* The deferred rows are forgotten instead of accumulated.
dropRemainingInput(s, pool) ==
    [s EXCEPT !.hasRemaining = FALSE, !.remainingInput = << >>]

addRemainingInput(s, pool) ==
    LET forget(s1) ==
            IF s1.error # "none" THEN s1
            ELSE [s1 EXCEPT !.hasRemaining = FALSE, !.remainingInput = << >>]
    IN forget(addInputForActiveRows(
                  s, s.remainingInput, s.firstRemainingRow,
                  Len(s.remainingInput), pool))

equalKeys(input, i, j) == input[i].k = input[j].k

\* The number of rows before the second group of pre-grouped keys.
FirstBoundary(input) ==
    LET cuts == {n \in 1..(Len(input) - 1) : ~equalKeys(input, n, n + 1)}
    IN IF cuts = {} THEN 0 ELSE CHOOSE n \in cuts : \A m \in cuts : n <= m

\* The number of rows before the last group of pre-grouped keys: the largest
\* n with input[n] and input[n + 1] differing on the keys; 0 when there is
\* none.
LastBoundary(input) ==
    LET cuts == {n \in 1..(Len(input) - 1) : ~equalKeys(input, n, n + 1)}
    IN IF cuts = {} THEN 0 ELSE CHOOSE n \in cuts : \A m \in cuts : m <= n

addInputKeyed(s, input, pool) ==
    LET s1 == [s EXCEPT !.numInputRows = @ + Len(input)]
        cut == IF cfg.preGrouped THEN LastBoundary(input) ELSE 0
        numRows == IF cut > 0 THEN cut ELSE Len(input)
        defer(s2) ==
            IF cut > 0
            THEN [s2 EXCEPT !.hasRemaining = TRUE,
                            !.remainingInput = input,
                            !.firstRemainingRow = cut]
            ELSE s2
        addPrefix(s2) ==
            IF s2.error # "none" THEN s2
            ELSE addInputForActiveRows(defer(s2), input, 0, numRows, pool)
    IN addPrefix(IF cfg.preGrouped /\ s1.hasRemaining
                 THEN addRemainingInput(s1, pool) ELSE s1)

hasSpilled(s) == s.inputSpiller \/ s.outputSpiller

\* A hasOutput that does not look at the deferred rows.
hasOutputAtEndOnly(s) == s.noMoreInput

hasOutput(s) == s.noMoreInput \/ s.hasRemaining

\* An ensureOutputFits that keeps every reservation it obtained.
ensureOutputFitsKeep(s, pool) ==
    IF cfg.isPartial \/ ~cfg.spillConfig \/ hasSpilled(s)
       \/ ~s.tableExists \/ NumDistinct(s.table) = 0
    THEN s
    ELSE
      LET s1 == IF pool \in {"reclaimGranted", "reclaimDenied"}
                THEN spill(s) ELSE s
      IN IF pool \in {"denied", "reclaimDenied"}
         THEN [s1 EXCEPT !.numDenied = @ + 1]
         ELSE [s1 EXCEPT !.outputReservation = TRUE]

\* maybeReserve is always called here: "sufficient" and "granted" both stand
\* for a reservation the pool satisfies without reclaiming from this
\* operator.  pool_.release() runs only when the reservation was satisfied
\* and the grouping set has spilled by then.
ensureOutputFits(s, pool) ==
    IF cfg.isPartial \/ ~cfg.spillConfig \/ hasSpilled(s)
       \/ ~s.tableExists \/ NumDistinct(s.table) = 0
    THEN s
    ELSE
      LET reserved(s1) ==
              IF pool \in {"denied", "reclaimDenied"}
              THEN [s1 EXCEPT !.numDenied = @ + 1]
              ELSE IF hasSpilled(s1)
              THEN [s1 EXCEPT !.outputReservation = FALSE]
              ELSE [s1 EXCEPT !.outputReservation = TRUE]
      IN reserved(reserve(s, pool))

\* noMoreInput that spills what is in memory before it accumulates the
\* deferred rows.
noMoreInputSpillFirst(s, pool) ==
    LET s1 == [s EXCEPT !.noMoreInput = TRUE]
        s2 == IF s1.outputSpiller
              THEN Fail(s1, "noMoreInput: outputSpiller_ is not null")
              ELSE IF s1.inputSpiller THEN spill(s1) ELSE s1
        s3 == IF s2.error = "none" /\ s2.hasRemaining
              THEN addRemainingInput(s2, "sufficient") ELSE s2
    IN IF s3.error # "none" THEN s3 ELSE ensureOutputFits(s3, pool)

noMoreInputOf(s, pool) ==
    LET s1 == [s EXCEPT !.noMoreInput = TRUE]
        spillRest(s2) ==
            IF s2.error # "none" THEN s2
            ELSE IF s2.outputSpiller
            THEN Fail(s2, "noMoreInput: outputSpiller_ is not null")
            ELSE IF s2.inputSpiller THEN spill(s2) ELSE s2
        reserveOutput(s3) ==
            IF s3.error # "none" THEN s3 ELSE ensureOutputFits(s3, pool)
    IN reserveOutput(
           spillRest(IF s1.hasRemaining THEN addRemainingInput(s1, pool)
                     ELSE s1))

\* ------------------------------------------------------ global aggregation
\* An initialization that does not look at globalAggregationInitialized_.
initializeGlobalAggregationAlways(s) ==
    [s EXCEPT
        !.globalRow = InitializeNewGroup(0).acc,
        !.numGlobalInit = @ + 1,
        !.globalAggregationInitialized = TRUE]

initializeGlobalAggregation(s) ==
    IF s.globalAggregationInitialized THEN s
    ELSE [s EXCEPT
            !.globalRow = InitializeNewGroup(0).acc,
            !.numGlobalInit = @ + 1,
            !.globalAggregationInitialized = TRUE]

RECURSIVE AccumulateRows(_, _)
AccumulateRows(acc, input) ==
    IF input = << >> THEN acc
    ELSE Accumulate(
             AccumulateRows(acc, SubSeq(input, 1, Len(input) - 1)),
             input[Len(input)])

addGlobalAggregationInput(s, input) ==
    LET s1 == initializeGlobalAggregation(s)
    IN [accumulatorCall(s1) EXCEPT !.globalRow = AccumulateRows(@, input),
                  !.addCalls = @ \cup globalAddCalls(s, input),
                  !.sortedInputRows =
                      IF cfg.sortedAggregations THEN @ + Len(input) ELSE @,
                  !.accumulated = @ + Len(input)]

\* ----------------------------------------------------------------- output
RECURSIVE SetToSeq(_)
SetToSeq(S) ==
    IF S = {} THEN << >>
    ELSE LET x == CHOOSE y \in S : \A z \in S : y <= z
         IN <<x>> \o SetToSeq(S \ {x})

\* SortedAggregations::extractValues and DistinctAggregations::extractValues:
\* the function is applied to the rows, or to the distinct values, the
\* adapter has stored for the group.
AdapterExtractValues(fn, values) ==
    LET Step(a, v) == AddRawValue(fn, a, v)
    IN ExtractValue(fn, FoldLeft(Step, InitAccumulator(fn), values))

\* The values of one group as extractGroups writes them.
ExtractAggregates(acc) ==
    [i \in DOMAIN acc |->
        IF i \in SortedAggregates
        THEN AdapterExtractValues(cfg.aggregates[i].function, acc[i])
        ELSE IF i \in DistinctAggregates
        THEN AdapterExtractValues(cfg.aggregates[i].function, SetToSeq(acc[i]))
        ELSE IF cfg.isPartial
        THEN ExtractAccumulator(cfg.aggregates[i].function, acc[i])
        ELSE ExtractValue(cfg.aggregates[i].function, acc[i])]

extractGroups(groups) ==
    [i \in DOMAIN groups |->
        [key |-> <<groups[i].key>>, aggs |-> ExtractAggregates(groups[i].acc)]]

\* The accumulators extractGroups reads: the function's of every aggregate
\* without sorting keys, what sortedAggregations_ reads, and the accumulator
\* of every distinct aggregation.
ExtractedSlots ==
    FunctionSlots(NonSortedAggregates)
        \cup SortedInitializeNewGroups
        \cup {<<"distinct", i>> : i \in DistinctAggregates}

\* The accumulators extractGroups reads from a group that never initialized
\* them.
ReadUninitialized(groups) ==
    {a \in ExtractedSlots : \E g \in DOMAIN groups : a \notin groups[g].init}

FreshIterator == [exhausted |-> FALSE, pos |-> 0]

getGlobalAggregationOutput(s) ==
    IF s.iterator.exhausted
    THEN [s EXCEPT !.flag = FALSE]
    ELSE
      LET s1 == initializeGlobalAggregation(s)
      IN [accumulatorCall(s1) EXCEPT
            !.result = <<[key |-> << >>, aggs |-> ExtractAggregates(s1.globalRow)]>>,
            !.iterator = [@ EXCEPT !.exhausted = TRUE],
            !.flag = TRUE]

hasDefaultGlobalGroupingSetOutput(s) ==
    s.noMoreInput /\ s.numInputRows = 0 /\ cfg.globalGroupingSets # << >>

\* A default output that writes the row number where the grouping-set id
\* belongs.
getDefaultOutputRowNumbers(s) ==
    IF s.iterator.exhausted
    THEN [s EXCEPT !.flag = FALSE]
    ELSE
      LET s1 == getGlobalAggregationOutput(s)
      IN [s1 EXCEPT !.result =
            [j \in DOMAIN cfg.globalGroupingSets |->
               [ key |-> [i \in 1..cfg.numKeys |->
                             IF i = cfg.groupIdChannel THEN <<j - 1>>
                             ELSE Null],
                 aggs |-> s1.result[1].aggs ]]]

\* One row per global grouping set: the key columns are null except the
\* group-id column; the aggregate columns copy the global aggregates row.
getDefaultGlobalGroupingSetOutput(s) ==
    IF s.iterator.exhausted
    THEN [s EXCEPT !.flag = FALSE]
    ELSE
      LET s1 == getGlobalAggregationOutput(s)
          globalAggregatesRow == s1.result[1]
      IN IF cfg.groupIdChannel = 0
         THEN Fail(s1, "getDefaultGlobalGroupingSetOutput: no groupIdChannel_")
         ELSE [s1 EXCEPT !.result =
                 [j \in DOMAIN cfg.globalGroupingSets |->
                    [ key |-> [i \in 1..cfg.numKeys |->
                                  IF i = cfg.groupIdChannel
                                  THEN <<cfg.globalGroupingSets[j]>>
                                  ELSE Null],
                      aggs |-> globalAggregatesRow.aggs ]]]

\* RowContainer::listRows from the iterator: at most maxRows rows and at most
\* byteRows rows, the number of rows that fill the byte budget.
ListRows(rows, it, maxRows, byteRows) ==
    SubSeq(rows, it.pos + 1, Min(Len(rows), it.pos + Min(maxRows, byteRows)))

\* -------------------------------------------------------- merge recovery
\* SpillPartition::createOrderedReader: one stream per finished file of the
\* partition; the stream of the i-th file has id i - 1.
createOrderedReader(files, p) == files[p + 1]

\* A finalization that keeps the partitions without a file.
finishSpillKeepEmpty(files) == Partitions

\* finishSpill followed by removeEmptyPartitions: the partitions that hold a
\* file.
finishSpill(files) == {p \in Partitions : files[p + 1] # << >>}

\* TreeOfLosers::nextWithEquals: the stream whose current row has the lowest
\* key (0 when every stream is at its end), and whether another stream holds
\* an equal key.  tieBreak tells which of several equal streams comes first.
nextWithEquals(streams, tieBreak) ==
    LET live == {i \in DOMAIN streams : streams[i] # << >>}
        lowest == {i \in live :
                     \A j \in live : streams[i][1].key <= streams[j][1].key}
    IN IF live = {} THEN [stream |-> 0, equal |-> FALSE]
       ELSE [ stream |->
                IF tieBreak = "low"
                THEN CHOOSE i \in lowest : \A j \in lowest : i <= j
                ELSE CHOOSE i \in lowest : \A j \in lowest : j <= i,
              equal |-> Cardinality(lowest) > 1 ]

Pop(streams, i) == [streams EXCEPT ![i] = Tail(@)]

\* Only the first partition is ever opened.
prepareFirstPartitionOnly(s) ==
    IF s.outputSpillPartition # -1 \/ s.spillPartitionSet = {}
    THEN [s EXCEPT !.hasMerge = FALSE, !.merge = << >>, !.flag = FALSE]
    ELSE
      LET it == CHOOSE p \in s.spillPartitionSet :
                    \A q \in s.spillPartitionSet : p <= q
      IN [s EXCEPT
            !.outputSpillPartition = it,
            !.hasMerge = TRUE,
            !.merge = s.spillFiles[it + 1],
            !.spillPartitionSet = @ \ {it},
            !.flag = TRUE]

prepareNextSpillPartitionOutput(s) ==
    IF (~s.hasMerge) # (s.outputSpillPartition = -1)
    THEN Fail(s, "prepareNextSpillPartitionOutput: merge_ and outputSpillPartition_ disagree")
    ELSE IF s.spillPartitionSet = {}
    THEN [s EXCEPT !.hasMerge = FALSE, !.merge = << >>, !.flag = FALSE]
    ELSE
      LET it == CHOOSE p \in s.spillPartitionSet :
                    \A q \in s.spillPartitionSet : p <= q
      IN IF s.outputSpillPartition = it
         THEN Fail([s EXCEPT !.hasMerge = FALSE, !.merge = << >>],
                   "prepareNextSpillPartitionOutput: same partition")
         ELSE [s EXCEPT
                 !.outputSpillPartition = it,
                 !.hasMerge = TRUE,
                 !.merge = createOrderedReader(s.spillFiles, it),
                 !.openedPartitions = Append(@, it),
                 !.spillPartitionSet = @ \ {it},
                 !.flag = TRUE]

\* initializeRow: a new row of mergeRows_ with the key of the stream's row;
\* the functions of the aggregates without sorting keys and
\* sortedAggregations_ initialize it.
initializeRow(mergeRows, row) ==
    Append(mergeRows,
           [newRow(row.key) EXCEPT
               !.init = FunctionSlots(NonSortedAggregates)
                            \cup SortedInitializeNewGroups])

\* An update that overwrites the merged accumulators with the stream's.
updateRowOverwrite(mergeRows, row) ==
    [mergeRows EXCEPT ![Len(mergeRows)].acc = row.acc]

\* updateRow: the spilled accumulators of the stream's row are merged, as
\* intermediate results, into mergeState_, the last row of mergeRows_.
\* sortedAggregations_ takes the spilled rows of the group
\* (addSingleGroupSpillInput); the accumulator of a distinct aggregation is
\* not touched.
updateRow(mergeRows, row) ==
    [mergeRows EXCEPT ![Len(mergeRows)].acc =
        [i \in DOMAIN @ |->
            IF i \in SortedAggregates THEN @[i] \o row.acc[i]
            ELSE IF i \in DistinctAggregates THEN @[i]
            ELSE AddIntermediateValue(
                     cfg.aggregates[i].function, @[i], row.acc[i])]]

\* A cut that does not wait for the end of the run of equal keys.
outputBatchIsFullMidKey(nextKeyIsEqual, numRows, limit) == numRows >= limit

\* The test that ends an output batch: the run of equal keys has ended and
\* mergeRows_ holds maxOutputRows rows or fills maxOutputBytes (limit is the
\* smaller of the two, in rows).
outputBatchIsFull(nextKeyIsEqual, numRows, limit) ==
    ~nextKeyIsEqual /\ numRows >= limit

\* A clearMergeRows that leaves the rows in mergeRows_.
clearMergeRowsKept(s) == clearSortedAggregations(s)

\* clearMergeRows, the end of extractSpillResult: mergeRows_->clear() and
\* sortedAggregations_->clear().
clearMergeRows(s) ==
    [clearSortedAggregations(s) EXCEPT !.mergeRowsData = << >>]

RECURSIVE mergeNextWithAggregates(_, _, _, _, _)
\* One getOutput call; mergeRows and nextKeyIsEqual are the loop's state.
mergeNextWithAggregates(s, mergeRows, nextKeyIsEqual, limit, tieBreak) ==
    IF isDistinct \/ ~s.hasMerge
    THEN Fail(s, "mergeNextWithAggregates: precondition")
    ELSE
      LET next == nextWithEquals(s.merge, tieBreak)
      IN IF next.stream = 0
         THEN IF Len(mergeRows) > 0
              THEN [clearMergeRows([accumulatorCall(s) EXCEPT
                                        !.mergeRowsData = mergeRows]) EXCEPT
                             !.result = extractGroups(mergeRows),
                             !.undefined = @ \cup ReadUninitialized(mergeRows),
                             !.flag = TRUE]
              ELSE IF nextKeyIsEqual
              THEN Fail(s, "mergeNextWithAggregates: nextKeyIsEqual at the end")
              ELSE
                LET s1 == prepareNextSpillPartitionOutput(s)
                IN IF s1.error # "none" THEN s1
                   ELSE IF ~s1.flag
                   THEN [s1 EXCEPT !.result = << >>, !.flag = FALSE]
                   ELSE mergeNextWithAggregates(
                            s1, << >>, nextKeyIsEqual, limit, tieBreak)
         ELSE
           LET row == s.merge[next.stream][1]
               started == IF ~nextKeyIsEqual
                          THEN initializeRow(mergeRows, row) ELSE mergeRows
               merged == updateRow(started, row)
               s1 == [accumulatorCall(s) EXCEPT
                        !.merge = Pop(@, next.stream),
                        !.addCalls = @ \cup mergeAddCalls(s)]
           IN IF outputBatchIsFull(next.equal, Len(merged), limit)
              THEN [clearMergeRows([s1 EXCEPT !.mergeRowsData = merged])
                        EXCEPT
                              !.result = extractGroups(merged),
                              !.undefined = @ \cup ReadUninitialized(merged),
                              !.flag = TRUE]
              ELSE mergeNextWithAggregates(
                       s1, merged, next.equal, limit, tieBreak)

\* No stream counts as a stream of the first spill.
isDistinctStreamNever(s, stream) == FALSE

\* A test that also counts the first file written after the first spill.
isDistinctStreamInclusive(s, stream) ==
    stream - 1 <=
        s.numDistinctSpillFilesPerPartition[s.outputSpillPartition + 1]

\* A distinct stream holds rows the first spill wrote: its id, stream - 1, is
\* less than the number of files the first spill left in the partition.
isDistinctStream(s, stream) ==
    stream - 1 <
        s.numDistinctSpillFilesPerPartition[s.outputSpillPartition + 1]

RECURSIVE mergeNextWithoutAggregates(_, _, _, _, _)
\* One getOutput call; out holds the rows copied so far, newDistinct is the
\* flag of the run of equal keys being walked.
mergeNextWithoutAggregates(s, out, newDistinct, maxOutputRows, tieBreak) ==
    IF ~s.hasMerge \/ ~isDistinct \/ s.outputSpiller \/ ~s.inputSpiller
       \/ Len(s.numDistinctSpillFilesPerPartition) # NumPartitions
    THEN Fail(s, "mergeNextWithoutAggregates: precondition")
    ELSE IF Len(out) >= maxOutputRows
    THEN [s EXCEPT !.result = out, !.flag = Len(out) > 0]
    ELSE
      LET next == nextWithEquals(s.merge, tieBreak)
      IN IF next.stream = 0
         THEN IF Len(out) > 0
              THEN [s EXCEPT !.result = out, !.flag = TRUE]
              ELSE
                LET s1 == prepareNextSpillPartitionOutput(s)
                IN IF s1.error # "none" THEN s1
                   ELSE IF ~s1.flag
                   THEN [s1 EXCEPT !.result = out, !.flag = FALSE]
                   ELSE mergeNextWithoutAggregates(
                            s1, out, newDistinct, maxOutputRows, tieBreak)
         ELSE
           LET row == s.merge[next.stream][1]
               fresh == newDistinct /\ ~isDistinctStream(s, next.stream)
               s1 == [s EXCEPT !.merge = Pop(@, next.stream)]
           IN IF next.equal
              THEN mergeNextWithoutAggregates(
                       s1, out, fresh, maxOutputRows, tieBreak)
              ELSE mergeNextWithoutAggregates(
                       s1,
                       IF fresh THEN Append(out, [key |-> <<row.key>>, aggs |-> << >>])
                       ELSE out,
                       TRUE, maxOutputRows, tieBreak)

\* A dispatch that takes the merge of the other kind of grouping set.
mergeNextOtherKind(s, maxOutputRows, byteRows, tieBreak) ==
    IF ~isDistinct
    THEN mergeNextWithoutAggregates(s, << >>, TRUE, maxOutputRows, tieBreak)
    ELSE mergeNextWithAggregates(
             s, s.mergeRowsData, FALSE, Min(maxOutputRows, byteRows), tieBreak)

mergeNext(s, maxOutputRows, byteRows, tieBreak) ==
    IF isDistinct
    THEN mergeNextWithoutAggregates(s, << >>, TRUE, maxOutputRows, tieBreak)
    ELSE mergeNextWithAggregates(
             s, s.mergeRowsData, FALSE, Min(maxOutputRows, byteRows), tieBreak)

\* The first call of merge recovery: the merge container, the finalized
\* partition set and the reader of its first partition.
StartMerge(s) ==
    IF s.mergeRowsExists THEN Fail(s, "getOutputWithSpill: mergeRows_ is not null")
    ELSE IF NumDistinct(s.table) # 0
    THEN Fail(s, "getOutputWithSpill: the table holds rows")
    ELSE IF s.hasMerge THEN Fail(s, "getOutputWithSpill: merge_ is not null")
    ELSE prepareNextSpillPartitionOutput(
             [s EXCEPT !.mergeRowsExists = ~isDistinct,
                       !.spillFinished = TRUE,
                       !.numFinishSpill = @ + 1,
                       !.spillPartitionSet = finishSpill(s.spillFiles)])

getOutputWithSpill(s, maxOutputRows, byteRows, tieBreak) ==
    LET s1 == IF s.outputSpillPartition = -1
              THEN StartMerge(s) ELSE [s EXCEPT !.flag = TRUE]
    IN IF s1.error # "none" THEN s1
       ELSE IF ~s1.flag THEN [s1 EXCEPT !.result = << >>]
       ELSE IF ~s1.hasMerge
       THEN Fail(s1, "getOutputWithSpill: merge_ is null")
       ELSE mergeNext(s1, maxOutputRows, byteRows, tieBreak)

getOutput(s, maxOutputRows, byteRows, tieBreak) ==
    IF cfg.isGlobal THEN getGlobalAggregationOutput(s)
    ELSE IF hasDefaultGlobalGroupingSetOutput(s)
    THEN getDefaultGlobalGroupingSetOutput(s)
    ELSE IF hasSpilled(s)
    THEN getOutputWithSpill(s, maxOutputRows, byteRows, tieBreak)
    ELSE IF isDistinct THEN Fail(s, "getOutput: isDistinct()")
    ELSE
      LET groups == IF s.tableExists
                    THEN ListRows(s.table, s.iterator, maxOutputRows, byteRows)
                    ELSE << >>
      IN IF Len(groups) = 0
         THEN [s EXCEPT !.table = << >>, !.flag = FALSE]
         ELSE [accumulatorCall(s) EXCEPT
                 !.result = extractGroups(groups),
                 !.undefined = @ \cup ReadUninitialized(groups),
                 !.iterator = [@ EXCEPT !.pos = @ + Len(groups)],
                 !.flag = TRUE]

\* An output spill that starts at the first row of the container, whatever
\* the iterator.
OutputSpillerSpillAll(files, rows, it) ==
    IF rows = << >> THEN files ELSE [files EXCEPT ![1] = Append(@, rows)]

\* AggregationOutputSpiller::spill(rowIterator): the rows from the iterator's
\* position on go, in container order, to one finished file of partition 0.
OutputSpillerSpill(files, rows, it) ==
    LET run == SubSeq(rows, it.pos + 1, Len(rows))
    IN IF run = << >> THEN files ELSE [files EXCEPT ![1] = Append(@, run)]

\* spill(rowIterator) without the hasSpilled() check.
spillRowIteratorUnchecked(s) ==
    IF ~s.tableExists THEN s
    ELSE
      LET written == [spillWrite(freeze(s)) EXCEPT
                         !.outputSpiller = TRUE,
                         !.spillFiles =
                             OutputSpillerSpill(@, s.table, s.iterator)]
      IN clearTable(unfreeze(written))

spillRowIterator(s) ==
    IF hasSpilled(s) THEN Fail(s, "spill(rowIterator): hasSpilled()")
    ELSE IF ~s.tableExists THEN s
    ELSE
      LET written == [spillWrite(freeze(s)) EXCEPT
                         !.outputSpiller = TRUE,
                         !.spillFiles =
                             OutputSpillerSpill(@, s.table, s.iterator)]
      IN clearTable(unfreeze(written))

addInput(s, input, pool) ==
    IF cfg.isGlobal THEN addGlobalAggregationInput(s, input)
    ELSE addInputKeyed(s, input, pool)

\* ------------------------------------------- the reference aggregator
\* One pass over every input row, independent of the grouping set: per key the
\* number of rows and the total of v; last is the key of the latest row.
NoReference ==
    [ agg |-> [k \in 0..MaxKey |-> [n |-> 0, total |-> 0]], last |-> 0 ]

RefKey(r) == IF cfg.isGlobal THEN 0 ELSE r.k

RefAdd(ref, r) ==
    [ref EXCEPT !.agg[RefKey(r)] = [n |-> @.n + 1, total |-> @.total + r.v],
                !.last = RefKey(r)]

Feed(ref, input) == FoldLeft(RefAdd, ref, input)

\* The value the reference gives aggregate fn of key k: over raw input count
\* counts the rows and sum totals v; over intermediate input every row carries
\* a partial count or a partial sum of v.
RefValue(fn, k) ==
    LET g == reference.agg[k]
    IN IF fn = "count" THEN (IF cfg.isRawInput THEN g.n ELSE g.total)
       ELSE IF g.n = 0 THEN Null ELSE <<g.total>>

RefAggs(k) ==
    [i \in DOMAIN cfg.aggregates |-> RefValue(cfg.aggregates[i].function, k)]

RefKeys == {k \in Keys : reference.agg[k].n > 0}

RefRows == {[key |-> <<k>>, aggs |-> RefAggs(k)] : k \in RefKeys}

RefNumRows == Cardinality(RefKeys)

TotalFed == LET Count(a, k) == a + reference.agg[k].n
            IN FoldLeft(Count, 0, [i \in 1..(MaxKey + 1) |-> i - 1])

\* Pre-grouped input: a key, once followed by another key, does not come back.
RECURSIVE IsPreGrouped(_, _)
IsPreGrouped(ref, input) ==
    IF input = << >> THEN TRUE
    ELSE /\ \/ input[1].k = ref.last
            \/ ref.agg[input[1].k].n = 0
         /\ IsPreGrouped(RefAdd(ref, input[1]), Tail(input))

\* ----------------------------------------------------------------- actions
Init ==
    /\ phase = "Uninitialized"
    /\ args = NoArgs
    /\ cfg = NoMembers
    /\ tableExists = FALSE
    /\ table = << >>
    /\ numInputRows = 0
    /\ noMoreInput = FALSE
    /\ hasRemaining = FALSE
    /\ remainingInput = << >>
    /\ firstRemainingRow = 0
    /\ inputSpiller = FALSE
    /\ outputSpiller = FALSE
    /\ spillFiles = NoFiles
    /\ numDistinctSpillFilesPerPartition = << >>
    /\ spillFinished = FALSE
    /\ spillPartitionSet = {}
    /\ outputSpillPartition = -1
    /\ hasMerge = FALSE
    /\ merge = << >>
    /\ mergeRowsExists = FALSE
    /\ globalAggregationInitialized = FALSE
    /\ globalRow = << >>
    /\ error = "none"
    /\ iterator = FreshIterator
    /\ ret = "none"
    /\ result = << >>
    /\ emitted = << >>
    /\ reference = NoReference
    /\ accumulated = 0
    /\ numBatches = 0
    /\ numDenied = 0
    /\ numGlobalInit = 0
    /\ preSpillKeys = {}
    /\ spilledAfterDenial = FALSE
    /\ outputReservation = FALSE
    /\ abandonedPartialAggregation = FALSE
    /\ allSupportToIntermediate = FALSE
    /\ intermediateRowsExists = FALSE
    /\ intermediateAccumulators = {}
    /\ intermediateRows = 0
    /\ lastInput = << >>
    /\ tableStats = NoStats
    /\ numRehashes = 0
    /\ maxBytesArg = 0
    /\ uninitializedUse = FALSE
    /\ sortedInputRows = 0
    /\ allocatorFrozen = FALSE
    /\ allocatorMisuse = {}
    /\ nonReclaimableSection = TRUE
    /\ sectionMisuse = {}
    /\ numFinishSpill = 0
    /\ openedPartitions = << >>
    /\ getOutputTick = FALSE
    /\ lastAddCalls = {}
    /\ lastMemory = NoMemory
    /\ lastReserveCalls = << >>
    /\ lastScratchReads = {}
    /\ lastOutOfRange = FALSE
    /\ mergeRowsData = << >>
    /\ lastScratchRows = NoScratchRows
    /\ accumulatorsArg = << >>
    /\ globalLayout = NoLayout
    /\ lastOp = "none"

Untouched ==
    UNCHANGED << tableExists, table, numInputRows, noMoreInput, hasRemaining,
                 remainingInput, firstRemainingRow, inputSpiller,
                 outputSpiller, spillFiles, numDistinctSpillFilesPerPartition,
                 spillFinished, spillPartitionSet, outputSpillPartition,
                 hasMerge, merge, mergeRowsExists,
                 globalAggregationInitialized, globalRow, iterator, ret,
                 result, emitted, accumulated, numDenied, numGlobalInit,
                 preSpillKeys, outputReservation,
                 abandonedPartialAggregation,
                 allSupportToIntermediate,
                 intermediateRowsExists,
                 intermediateAccumulators,
                 intermediateRows,
                 lastInput,
                 tableStats,
                 numRehashes,
                 maxBytesArg,
                 uninitializedUse,
                 sortedInputRows,
                 allocatorFrozen,
                 allocatorMisuse,
                 nonReclaimableSection,
                 sectionMisuse,
                 numFinishSpill,
                 openedPartitions,
                 getOutputTick,
                 lastAddCalls,
                 lastMemory,
                 lastReserveCalls,
                 lastScratchReads,
                 lastOutOfRange,
                 mergeRowsData,
                 lastScratchRows,
                 accumulatorsArg,
                 globalLayout >>

\* GroupingSet::GroupingSet: the user checks run last; a failed check throws
\* and no object exists.
Construct(a) ==
    /\ phase = "Uninitialized"
    /\ args' = a
    /\ IF ConstructorCheck(a) = "none"
       THEN phase' = "Constructed" /\ cfg' = Members(a) /\ error' = error
       ELSE phase' = "ConstructFailed" /\ cfg' = cfg
            /\ error' = ConstructorCheck(a)
    /\ lastOp' = "construct"
    /\ Untouched
    /\ UNCHANGED <<reference, numBatches, spilledAfterDenial>>

Ready == phase = "Constructed" /\ error = "none"

\* The outcomes the pool can have in a call: it is consulted only by a final
\* or single aggregation with a spill config.
PoolChoices ==
    IF cfg.spillConfig /\ ~cfg.isPartial THEN PoolOutcomes ELSE {"sufficient"}

HasMask == \E i \in DOMAIN cfg.aggregates : cfg.aggregates[i].mask

\* The batches fed to a grouping set: with a spill config more and smaller
\* ones, so that several spills fit between them; with a mask, small ones
\* whose mask column varies.
InputBatches ==
    IF HasMask THEN {b \in MaskedBatches : Len(b) <= MaxSpillBatchRows}
    ELSE IF cfg.spillConfig /\ ~cfg.preGrouped
    THEN {b \in Batches : Len(b) <= MaxSpillBatchRows} ELSE Batches

BatchLimit ==
    IF cfg.spillConfig /\ ~cfg.preGrouped /\ ~HasMask
    THEN MaxSpillBatches ELSE MaxBatches

\* The caller feeds a batch; after getOutput returned false it has reset its
\* iterator first.
AddInput ==
    /\ Ready
    /\ ~noMoreInput
    /\ ~abandonedPartialAggregation
    /\ numBatches < BatchLimit
    /\ ret # "false"
    /\ \E input \in InputBatches, pool \in PoolChoices :
        /\ cfg.preGrouped => IsPreGrouped(reference, input)
        /\ Commit(addInput(Self, input, pool))
        /\ reference' = Feed(reference, input)
        /\ numBatches' = numBatches + 1
        /\ lastOp' = "addInput"
        /\ UNCHANGED <<phase, args, cfg, spilledAfterDenial>>

\* The operator's reclaim while input is still arriving: spill().
Spill ==
    /\ Ready
    /\ cfg.spillConfig /\ ~cfg.isPartial /\ ~cfg.isGlobal
    /\ ~noMoreInput
    /\ Commit(spill(Self))
    /\ spilledAfterDenial' =
           (spilledAfterDenial \/ (numDenied > 0 /\ NumDistinct(table) > 0))
    /\ lastOp' = "spill"
    /\ UNCHANGED <<phase, args, cfg, reference, numBatches>>

\* Like addInput, noMoreInput comes after the caller's reset of its iterator.
NoMoreInput ==
    /\ Ready
    /\ ~noMoreInput
    /\ ret # "false"
    /\ \E pool \in PoolChoices :
        /\ Commit(noMoreInputOf(Self, pool))
        /\ lastOp' = "noMoreInput"
        /\ UNCHANGED <<phase, args, cfg, reference, numBatches,
                       spilledAfterDenial>>

\* The operator's reclaim once all input has arrived: spill(rowIterator); it
\* does nothing for a grouping set that has spilled or has no aggregates.
SpillOutput ==
    /\ Ready
    /\ cfg.spillConfig /\ ~cfg.isPartial /\ ~cfg.isGlobal /\ ~isDistinct
    /\ noMoreInput
    /\ ~hasSpilled(Self)
    /\ Commit(spillRowIterator(Self))
    /\ lastOp' = "spillOutput"
    /\ UNCHANGED <<phase, args, cfg, reference, numBatches,
                   spilledAfterDenial>>

\* A read of an accumulator that was never initialized is undefined: the
\* call crashes, or it takes what the memory holds for an empty or for a
\* non-empty accumulator.
UndefinedOutcomes == {"crash", "null", "value"}

Undefine(s, outcome) ==
    IF s.undefined = {} \/ s.error # "none" THEN s
    ELSE IF outcome = "crash"
    THEN [Fail(s, "extractGroups: read of an uninitialized accumulator")
             EXCEPT !.uninitializedUse = TRUE]
    ELSE
      LET garbage(i) ==
              LET fn == cfg.aggregates[i].function
              IN IF outcome = "null"
                 THEN ExtractValue(fn, InitAccumulator(fn))
                 ELSE ExtractValue(
                          fn, AddRawValue(fn, InitAccumulator(fn), MaxVal))
          unread(i) ==
              /\ <<"function", i>> \notin s.undefined
              /\ <<"distinct", i>> \notin s.undefined
              /\ i \in SortedAggregates => <<"sorted", 0>> \notin s.undefined
          fix(row) ==
              [row EXCEPT !.aggs =
                  [i \in DOMAIN row.aggs |->
                      IF unread(i) THEN row.aggs[i] ELSE garbage(i)]]
      IN [s EXCEPT !.uninitializedUse = TRUE,
                   !.result = [g \in DOMAIN s.result |-> fix(s.result[g])]]

\* What one getOutput call leaves: result holds the rows the call placed.
GetOutputOutcome(maxOutputRows, byteRows, tieBreak, outcome) ==
    LET s == Undefine(getOutput([Self EXCEPT !.result = << >>],
                                maxOutputRows, byteRows, tieBreak),
                      outcome)
    IN IF s.error # "none" THEN [s EXCEPT !.ret = "error", !.result = << >>]
       ELSE [s EXCEPT !.ret = IF s.flag THEN "true" ELSE "false",
                      !.emitted = @ \o s.result]

GetOutputCall(maxOutputRows, byteRows, tieBreak) ==
    GetOutputOutcome(maxOutputRows, byteRows, tieBreak, "crash")

\* Only a row with the accumulator of a distinct aggregation can hold an
\* accumulator that its functions do not initialize.
OutcomeChoices ==
    IF \E i \in DOMAIN cfg.aggregates : cfg.distinctAggregations[i]
    THEN UndefinedOutcomes ELSE {"crash"}

\* The caller asks for output only when hasOutput(); a grouping set without
\* aggregates is drained through getOutput only in merge recovery.
GetOutput ==
    /\ Ready
    /\ hasOutput(Self)
    /\ isDistinct /\ ~cfg.isGlobal =>
           hasSpilled(Self) \/ hasDefaultGlobalGroupingSetOutput(Self)
    /\ \E maxOutputRows \in 1..MaxOutputRows, byteRows \in 1..MaxOutputRows,
          tieBreak \in {"low", "high"}, outcome \in OutcomeChoices :
        /\ Commit(GetOutputOutcome(maxOutputRows, byteRows, tieBreak, outcome))
        /\ lastOp' = "getOutput"
        /\ UNCHANGED <<phase, args, cfg, reference, numBatches,
                       spilledAfterDenial>>

\* The caller resets its iterator after getOutput returned false while more
\* input is to come.
ResetIterator ==
    /\ Ready
    /\ ret = "false"
    /\ ~noMoreInput
    /\ iterator' = FreshIterator
    /\ ret' = "none"
    /\ lastOp' = "resetIterator"
    /\ UNCHANGED << phase, args, cfg, tableExists, table, numInputRows,
                    noMoreInput, hasRemaining, remainingInput,
                    firstRemainingRow, inputSpiller, outputSpiller, spillFiles,
                    numDistinctSpillFilesPerPartition, spillFinished,
                    spillPartitionSet, outputSpillPartition, hasMerge, merge,
                    mergeRowsExists, globalAggregationInitialized, globalRow,
                    error, result, emitted, reference, accumulated, numBatches,
                    numDenied, numGlobalInit, preSpillKeys,
                    spilledAfterDenial,
                    outputReservation,
                    abandonedPartialAggregation,
                    allSupportToIntermediate,
                    intermediateRowsExists,
                    intermediateAccumulators,
                    intermediateRows,
                    lastInput,
                    tableStats,
                    numRehashes,
                    maxBytesArg,
                    uninitializedUse,
                    sortedInputRows,
                    allocatorFrozen,
                    allocatorMisuse,
                    nonReclaimableSection,
                    sectionMisuse,
                    numFinishSpill,
                    openedPartitions,
                    getOutputTick,
                    lastAddCalls,
                    lastMemory,
                    lastReserveCalls,
                    lastScratchReads,
                    lastOutOfRange,
                    mergeRowsData,
                    lastScratchRows,
                    accumulatorsArg,
                    globalLayout >>

\* ---------------------------------------------------------- specifications
\* A keyed single or final aggregation with a spill config: with the plain
\* aggregates over raw or intermediate input, or without aggregates.
SpillArgs ==
    { a \in CtorArgs :
        /\ a.numKeys = 1 /\ ~a.preGrouped
        /\ a.aggregates \in {PlainAggregates, << >>}
        /\ (a.aggregates = << >> => a.isRawInput)
        /\ ~a.isPartial /\ a.globalGroupingSets = << >>
        /\ a.groupIdChannel = 0 /\ a.spillConfig }

ConstructSpill == phase = "Uninitialized" /\ \E a \in SpillArgs : Construct(a)

Next ==
    \/ ConstructSpill
    \/ AddInput
    \/ Spill
    \/ NoMoreInput
    \/ SpillOutput
    \/ GetOutput

Spec == Init /\ [][Next]_vars

\* A keyed aggregation with the plain aggregates and no spill config.
NoSpillArgs ==
    { a \in CtorArgs :
        /\ a.numKeys = 1 /\ ~a.preGrouped /\ a.aggregates = PlainAggregates
        /\ a.globalGroupingSets = << >> /\ a.groupIdChannel = 0
        /\ ~a.spillConfig }

ConstructNoSpill == phase = "Uninitialized" /\ \E a \in NoSpillArgs : Construct(a)

NextNoSpill ==
    \/ ConstructNoSpill
    \/ AddInput
    \/ NoMoreInput
    \/ GetOutput

SpecNoSpill == Init /\ [][NextNoSpill]_vars

\* A keyed aggregation over pre-grouped keys, drained or not while streaming.
PreGroupedArgs ==
    { a \in CtorArgs :
        /\ a.numKeys = 1 /\ a.preGrouped /\ a.aggregates = PlainAggregates
        /\ ~a.isPartial /\ a.globalGroupingSets = << >>
        /\ a.groupIdChannel = 0 /\ ~a.spillConfig }

ConstructPreGrouped == phase = "Uninitialized" /\ \E a \in PreGroupedArgs : Construct(a)

NextPreGrouped ==
    \/ ConstructPreGrouped
    \/ AddInput
    \/ NoMoreInput
    \/ GetOutput
    \/ ResetIterator

SpecPreGrouped == Init /\ [][NextPreGrouped]_vars

\* A global aggregation: no grouping keys.
GlobalArgs ==
    { a \in CtorArgs :
        /\ a.numKeys = 0 /\ ~a.preGrouped /\ a.aggregates = PlainAggregates
        /\ a.globalGroupingSets = << >> /\ a.groupIdChannel = 0
        /\ ~a.spillConfig }

ConstructGlobal == phase = "Uninitialized" /\ \E a \in GlobalArgs : Construct(a)

NextGlobal ==
    \/ ConstructGlobal
    \/ AddInput
    \/ NoMoreInput
    \/ GetOutput

SpecGlobal == Init /\ [][NextGlobal]_vars

\* A keyed aggregation that declares global grouping sets and the group-id
\* key column.
GroupingSetsArgs ==
    { a \in CtorArgs :
        /\ a.numKeys >= 1 /\ ~a.preGrouped /\ a.aggregates = PlainAggregates
        /\ ~a.isPartial /\ a.isRawInput
        /\ a.globalGroupingSets # << >>
        /\ a.groupIdChannel \in 1..a.numKeys
        /\ ~a.spillConfig }

ConstructGroupingSets == phase = "Uninitialized" /\ \E a \in GroupingSetsArgs : Construct(a)

NextGroupingSets ==
    \/ ConstructGroupingSets
    \/ AddInput
    \/ NoMoreInput
    \/ GetOutput

SpecGroupingSets == Init /\ [][NextGroupingSets]_vars

\* Construction alone, over every combination of arguments.
ConstructAny == phase = "Uninitialized" /\ \E a \in CtorArgs : Construct(a)

SpecConstruct == Init /\ [][ConstructAny]_vars

\* ------------------------------------------------------------ properties
EmittedSet == {emitted[i] : i \in DOMAIN emitted}

EmittedKeys == {emitted[i].key[1] : i \in DOMAIN emitted}

\* getOutput has returned false after noMoreInput; a later call may have
\* failed since.
Exhausted == noMoreInput /\ ret \in {"false", "error"}

EmittedIsReference == EmittedSet = RefRows /\ Len(emitted) = RefNumRows

NoReEmission ==
    \A i, j \in DOMAIN emitted : i # j => emitted[i].key # emitted[j].key

\* Key k lies in at least two spilled runs.
InTwoRuns(k) ==
    \E f, g \in DOMAIN spillFiles[Partition(k) + 1] :
        /\ f # g
        /\ \E i \in DOMAIN spillFiles[Partition(k) + 1][f] :
               spillFiles[Partition(k) + 1][f][i].key = k
        /\ \E i \in DOMAIN spillFiles[Partition(k) + 1][g] :
               spillFiles[Partition(k) + 1][g][i].key = k

\* C1: on a keyed aggregation with aggregates, whatever the points at which
\* spill() ran while input arrived, once getOutput has returned false after
\* noMoreInput the rows emitted are exactly those of the run without spill:
\* one row per distinct key, its aggregates those of all rows of the key.
C1_SpillRoundTrip ==
    (phase = "Constructed" /\ ~isDistinct /\ inputSpiller /\ Exhausted)
        => EmittedIsReference

C1_Witness ==
    /\ phase = "Constructed" /\ ~isDistinct /\ inputSpiller
    /\ noMoreInput /\ ret = "false"
    /\ lastOp = "getOutput"
    /\ \E k \in RefKeys : InTwoRuns(k)
    /\ Len(emitted) >= 2

\* C2: without aggregates, a key the table held at the first spill is never
\* written by merge recovery, and a key that first came after the first spill
\* is written exactly once, however many later runs hold it.
C2_DistinctOnce ==
    (phase = "Constructed" /\ isDistinct /\ inputSpiller)
        => /\ EmittedKeys \cap preSpillKeys = {}
           /\ NoReEmission
           /\ Exhausted => EmittedKeys = RefKeys \ preSpillKeys

C2_Witness ==
    /\ phase = "Constructed" /\ isDistinct /\ inputSpiller
    /\ noMoreInput /\ ret = "false"
    /\ preSpillKeys # {}
    /\ \E k \in EmittedKeys : InTwoRuns(k)

\* C3: without spill, once getOutput has returned false after noMoreInput,
\* there is exactly one emitted row per distinct key and its aggregates are
\* those of the reference aggregator, whatever the order and the batching of
\* the rows; no call fails.
C3_MatchesReference ==
    /\ error = "none"
    /\ (phase = "Constructed" /\ Exhausted) => EmittedIsReference

C3_Witness ==
    /\ phase = "Constructed" /\ noMoreInput /\ ret = "false"
    /\ Len(emitted) >= 2
    /\ \E k \in RefKeys : reference.agg[k].n > MaxBatchRows

\* The rows of remainingInput_ that wait for the next call.
Deferred ==
    IF hasRemaining THEN Len(remainingInput) - firstRemainingRow ELSE 0

\* C4: over pre-grouped keys, every input row is accumulated exactly once by
\* the time noMoreInput returns, and the rows emitted in total are those of
\* the grouping that is not pre-grouped, whether or not the caller drained
\* output between addInput calls.
C4_PreGrouped ==
    /\ error = "none"
    /\ accumulated + Deferred = TotalFed
    /\ noMoreInput => accumulated = TotalFed /\ ~hasRemaining
    /\ (phase = "Constructed" /\ Exhausted) => EmittedIsReference

C4_Witness ==
    /\ phase = "Constructed" /\ lastOp = "getOutput"
    /\ noMoreInput /\ ret = "false"
    /\ Len(emitted) >= 2
    /\ \E k \in RefKeys : reference.agg[k].n > MaxBatchRows
    /\ iterator.pos < Len(emitted)

\* C5: in every mode, once getOutput has returned false after noMoreInput,
\* every later getOutput call returns false and raises no error, and no call
\* writes a group an earlier call emitted.
C5_Idempotent ==
    /\ [](phase = "Constructed" => NoReEmission)
    /\ [][(noMoreInput /\ ret = "false" /\ lastOp' = "getOutput")
              => (ret' = "false" /\ error' = "none")]_vars

\* What is left to emit before a call: the rows of the table from the
\* iterator on or, in merge recovery, the keys of the reader and of the
\* partitions not opened yet, less the keys of the streams of the first spill
\* when there are no aggregates.
LeftInPartition(p) ==
    LET streams == IF outputSpillPartition = -1 THEN spillFiles[p + 1]
                   ELSE IF p = outputSpillPartition /\ hasMerge THEN merge
                   ELSE IF p \in spillPartitionSet THEN spillFiles[p + 1]
                   ELSE << >>
        held == {k \in Keys : \E f \in DOMAIN streams :
                    \E i \in DOMAIN streams[f] : streams[f][i].key = k}
        suppressed ==
            IF isDistinct
            THEN {k \in Keys :
                    \E f \in DOMAIN streams :
                        /\ f <= numDistinctSpillFilesPerPartition[p + 1]
                        /\ \E i \in DOMAIN streams[f] : streams[f][i].key = k}
            ELSE {}
    IN held \ suppressed

SomethingLeft ==
    IF hasSpilled(Self) THEN \E p \in Partitions : LeftInPartition(p) # {}
    ELSE tableExists /\ iterator.pos < Len(table)

\* C6: a getOutput call (maxOutputRows >= 1) returns true exactly when it
\* placed a row in result, and returns false only when nothing was left to
\* emit.
C6_TrueIffRows ==
    [][(lastOp' = "getOutput" /\ error' = "none")
          => /\ (ret' = "true") <=> (result' # << >>)
             /\ (ret' = "false") => ~SomethingLeft]_vars

C6_Witness ==
    /\ phase = "Constructed" /\ lastOp = "getOutput" /\ ret = "false"
    /\ inputSpiller /\ Len(emitted) >= 2
    /\ \A p \in Partitions : spillFiles[p + 1] # << >>

\* C7: a denied reservation raises no error in addInput and every row of the
\* batch is accumulated; a run with denied reservations and an explicit
\* spill() after them emits, in the end, the aggregates of the reference.
C7_DenialIsHarmless ==
    /\ lastOp = "addInput" => error = "none" /\ accumulated = TotalFed
    /\ (phase = "Constructed" /\ ~isDistinct /\ numDenied > 0 /\ Exhausted)
           => EmittedIsReference

C7_Witness ==
    /\ phase = "Constructed" /\ ~isDistinct
    /\ numDenied >= 2 /\ spilledAfterDenial
    /\ noMoreInput /\ ret = "false" /\ Len(emitted) >= 2

\* The rows of the default global grouping-set output.
DefaultRows ==
    [j \in DOMAIN cfg.globalGroupingSets |->
        [ key |-> [i \in 1..cfg.numKeys |->
                      IF i = cfg.groupIdChannel
                      THEN <<cfg.globalGroupingSets[j]>> ELSE Null],
          aggs |-> [i \in DOMAIN cfg.aggregates |->
                      InitAccumulator(cfg.aggregates[i].function)] ]]

DefaultApplies ==
    /\ phase = "Constructed" /\ ~cfg.isGlobal
    /\ cfg.globalGroupingSets # << >>
    /\ noMoreInput /\ numInputRows = 0

\* C8: with global grouping sets g_0..g_{n-1} and zero input rows, the first
\* getOutput returns true with n rows, row j holding g_j in the group-id
\* column, null in the other key columns and the aggregates of zero rows; the
\* next getOutput returns false.
C8_DefaultGroupingSetOutput ==
    /\ [](DefaultApplies /\ ret # "none"
            => /\ error = "none"
               /\ emitted = DefaultRows
               /\ ret = "true" => result = DefaultRows)
    /\ [][(DefaultApplies /\ lastOp' = "getOutput")
            => ((ret' = "true") <=> (ret = "none"))]_vars

C8_Witness ==
    /\ DefaultApplies /\ lastOp = "getOutput" /\ ret = "false"
    /\ cfg.numKeys = 2 /\ Len(emitted) = 2
    /\ emitted[1].key # emitted[2].key

\* C9: in global mode the single row is initialized exactly once, by the
\* first addInput or else by the first getOutput; the first getOutput returns
\* true with one row, the aggregates of all input, and every later one false.
C9_GlobalOnce ==
    /\ [](phase = "Constructed"
            => /\ error = "none"
               /\ numGlobalInit = (IF numBatches > 0 \/ ret # "none"
                                   THEN 1 ELSE 0)
               /\ ret # "none"
                    => emitted = <<[key |-> << >>, aggs |-> RefAggs(0)]>>
               /\ ret = "true" => result = emitted)
    /\ [][lastOp' = "getOutput" => ((ret' = "true") <=> (ret = "none"))]_vars

C9_Witness ==
    /\ phase = "Constructed" /\ cfg.isGlobal
    /\ numBatches >= 2 /\ lastOp = "getOutput" /\ ret = "false"
    /\ numGlobalInit = 1 /\ Len(emitted) = 1

\* C10: a constructor call with isPartial and an aggregate with sorting keys,
\* or with isPartial and a distinct aggregate, fails with a user error; no
\* constructed grouping set is partial with a sorted or distinct aggregate.
C10_PartialRejectsSortedDistinct ==
    /\ phase = "Constructed"
          => ~(cfg.isPartial /\ (cfg.sortedAggregations
                                   \/ HasDistinct(cfg.aggregates)))
    /\ ( /\ phase # "Uninitialized"
         /\ args.isPartial
         /\ HasSortingKeys(args.aggregates) \/ HasDistinct(args.aggregates) )
          => /\ phase = "ConstructFailed"
             /\ error \in
                 {"Partial aggregations over sorted inputs are not supported",
                  "Partial aggregations over distinct inputs are not supported"}

C10_Witness ==
    /\ phase = "ConstructFailed"
    /\ HasDistinct(args.aggregates) /\ ~HasSortingKeys(args.aggregates)

\* ------------------------------------------------- reclaim at any moment
\* spill() and spill(rowIterator) are public: a caller that does not follow
\* the operator's order (spill() while input arrives, spill(rowIterator) once
\* it has all arrived) can call either at any moment.
SpillAnyTime ==
    /\ Ready
    /\ cfg.spillConfig /\ ~cfg.isPartial /\ ~cfg.isGlobal
    /\ Commit(spill(Self))
    /\ lastOp' = "spill"
    /\ UNCHANGED <<phase, args, cfg, reference, numBatches,
                   spilledAfterDenial>>

SpillOutputAnyTime ==
    /\ Ready
    /\ cfg.spillConfig /\ ~cfg.isPartial /\ ~cfg.isGlobal /\ ~isDistinct
    /\ Commit(spillRowIterator(Self))
    /\ lastOp' = "spillOutput"
    /\ UNCHANGED <<phase, args, cfg, reference, numBatches,
                   spilledAfterDenial>>

ReclaimArgs == { a \in SpillArgs : a.aggregates = PlainAggregates }

ConstructReclaim == phase = "Uninitialized" /\ \E a \in ReclaimArgs : Construct(a)

NextReclaim ==
    \/ ConstructReclaim
    \/ AddInput
    \/ SpillAnyTime
    \/ NoMoreInput
    \/ SpillOutputAnyTime
    \/ GetOutput

SpecReclaim == Init /\ [][NextReclaim]_vars

\* The members a spill call that does nothing leaves alone.
SpillState ==
    << tableExists, table, inputSpiller, outputSpiller, spillFiles,
       numDistinctSpillFilesPerPartition, error >>

\* C11 (as amended): at most one of the input spiller and the output spiller
\* exists in every reachable state; spill() after an output spill fails
\* with a fatal check when the table holds a group and returns without any
\* effect when it holds none; spill(rowIterator) after any spill fails with
\* a fatal check; none of them creates a second spiller.
C11_OneSpiller ==
    /\ [](~(inputSpiller /\ outputSpiller))
    /\ [][(lastOp' = "spill" /\ outputSpiller /\ NumDistinct(table) > 0) =>
            (error' # "none" /\ ~inputSpiller' /\ outputSpiller')]_vars
    /\ [][(lastOp' = "spill" /\ outputSpiller /\ NumDistinct(table) = 0) =>
            UNCHANGED SpillState]_vars
    /\ [][(lastOp' = "spillOutput" /\ (inputSpiller \/ outputSpiller)) =>
            (error' # "none" /\ UNCHANGED <<inputSpiller, outputSpiller>>)]_vars

\* spill() met an output spiller and a table holding groups, and failed.
C11_Witness ==
    /\ lastOp = "spill"
    /\ outputSpiller /\ ~inputSpiller
    /\ error = "spill: outputSpiller_ is not null"

\* C11 (as stated): at most one spiller exists, and spill() after an output
\* spill, like spill(rowIterator) after any spill, always fails with a fatal
\* check.
C11_AlwaysFatal ==
    /\ [](~(inputSpiller /\ outputSpiller))
    /\ [][(lastOp' = "spill" /\ outputSpiller) =>
            (error' # "none" /\ ~inputSpiller')]_vars
    /\ [][(lastOp' = "spillOutput" /\ (inputSpiller \/ outputSpiller)) =>
            (error' # "none" /\ UNCHANGED <<inputSpiller, outputSpiller>>)]_vars

\* A keyed single or final aggregation over pre-grouped keys with a spill
\* config.
PreGroupedSpillArgs ==
    { a \in CtorArgs :
        /\ a.numKeys = 1 /\ a.preGrouped /\ a.aggregates = PlainAggregates
        /\ ~a.isPartial /\ a.isRawInput /\ a.globalGroupingSets = << >>
        /\ a.groupIdChannel = 0 /\ a.spillConfig }

ConstructPreGroupedSpill == phase = "Uninitialized" /\ \E a \in PreGroupedSpillArgs : Construct(a)

NextPreGroupedSpill ==
    \/ ConstructPreGroupedSpill
    \/ AddInput
    \/ Spill
    \/ NoMoreInput
    \/ GetOutput
    \/ ResetIterator

SpecPreGroupedSpill == Init /\ [][NextPreGroupedSpill]_vars

\* C12: once noMoreInput has returned, no row is deferred any more and every
\* row fed has been accumulated; if an input spiller exists then, the table
\* holds no group, and the merge recovery that follows never fails the check
\* that the table holds no rows.
C12_NoMoreInputSpillsRemainder ==
    /\ (phase = "Constructed" /\ noMoreInput /\ error = "none") =>
           /\ ~hasRemaining
           /\ accumulated = TotalFed
           /\ inputSpiller => NumDistinct(table) = 0
    /\ noMoreInput => error # "getOutputWithSpill: the table holds rows"

\* The one batch fed had two keys, so its last group was deferred; spill()
\* ran before noMoreInput, which accumulated the deferred row and spilled it.
C12_Witness ==
    /\ lastOp = "noMoreInput" /\ error = "none"
    /\ inputSpiller /\ NumDistinct(table) = 0
    /\ numBatches = 1 /\ Cardinality(RefKeys) = 2 /\ accumulated = 2
    /\ Len(spillFiles[1]) + Len(spillFiles[2]) = 2

\* The rows the output spiller wrote: those of its one file.
OutputSpilledRows ==
    IF spillFiles[1] = << >> THEN << >> ELSE spillFiles[1][1]

OutputSpilledKeys == {OutputSpilledRows[i].key : i \in DOMAIN OutputSpilledRows}

\* C13: on a keyed aggregation that had not spilled, after getOutput emitted
\* the groups before iterator position p and spill(rowIterator = p) ran, the
\* groups emitted by the later getOutput calls are among those at or after p,
\* no group is emitted twice, and once getOutput has returned false the
\* groups emitted after the spill are exactly those at or after p, so that
\* the whole output is that of the run without spill.
C13_OutputSpillResumes ==
    (phase = "Constructed" /\ outputSpiller) =>
        /\ iterator.pos <= Len(emitted)
        /\ NoReEmission
        /\ \A i \in DOMAIN emitted :
               (i > iterator.pos) <=> (emitted[i].key[1] \in OutputSpilledKeys)
        /\ Exhausted =>
               /\ Len(emitted) - iterator.pos = Len(OutputSpilledRows)
               /\ EmittedIsReference

\* Groups were emitted before the output spill and others after it, until
\* getOutput returned false.
C13_Witness ==
    /\ phase = "Constructed" /\ outputSpiller
    /\ lastOp = "getOutput" /\ ret = "false"
    /\ iterator.pos >= 1
    /\ Len(emitted) > iterator.pos

\* C17 (as amended): noMoreInput ends with ensureOutputFits, which raises no
\* error whether the pool satisfies or denies the reservation; a satisfied
\* reservation is released when the grouping set has spilled by the time
\* maybeReserve returns, and stays held for the output when it has not.  The
\* reservation is attempted when no spill happened before and the table
\* holds a group.
C17_ReleasedOnlyIfSpilled ==
    [][lastOp' = "noMoreInput" =>
        /\ error' = "none"
        /\ outputReservation' <=>
              /\ ~inputSpiller /\ NumDistinct(table) > 0
              /\ numDenied' = numDenied
              /\ ~inputSpiller']_vars

\* The pool satisfied the reservation without a spill of this grouping set:
\* the reservation is held when noMoreInput has returned.
C17_Witness ==
    /\ lastOp = "noMoreInput" /\ error = "none"
    /\ outputReservation /\ ~inputSpiller /\ NumDistinct(table) > 0

\* C17 (as stated): a satisfied output reservation never stays held after
\* ensureOutputFits has returned, and a denied one raises no error.
C17_AlwaysReleased ==
    /\ ~outputReservation
    /\ lastOp = "noMoreInput" => error = "none"

\* ------------------------------------------------ a pool that may refuse
\* addInput with a pool that may grant, deny or reclaim whatever the
\* configuration of the grouping set.
AddInputAnyPool ==
    /\ Ready
    /\ ~noMoreInput
    /\ numBatches < BatchLimit
    /\ ret # "false"
    /\ \E input \in InputBatches, pool \in PoolOutcomes :
        /\ Commit(addInput(Self, input, pool))
        /\ reference' = Feed(reference, input)
        /\ numBatches' = numBatches + 1
        /\ lastOp' = "addInput"
        /\ UNCHANGED <<phase, args, cfg, spilledAfterDenial>>

\* A keyed aggregation over raw input: partial or not, with or without a
\* spill config.
FitsArgs ==
    { a \in CtorArgs :
        /\ a.numKeys = 1 /\ ~a.preGrouped /\ a.aggregates = PlainAggregates
        /\ a.isRawInput /\ a.globalGroupingSets = << >>
        /\ a.groupIdChannel = 0 }

ConstructFits == phase = "Uninitialized" /\ \E a \in FitsArgs : Construct(a)

NextFits ==
    \/ ConstructFits
    \/ AddInputAnyPool
    \/ NoMoreInput
    \/ GetOutput

SpecFits == Init /\ [][NextFits]_vars

\* ensureInputFits returns at once: partial aggregation, no spill config, or
\* a table without groups.
InputFitsIsIdle == cfg.isPartial \/ ~cfg.spillConfig \/ NumDistinct(table) = 0

\* C16: when the aggregation is partial, when no spill config is set, or
\* when the table holds no group, ensureInputFits returns the grouping set
\* as it found it whatever the pool would answer (no reservation attempt, no
\* arbitration, no spill), and the addInput call it is part of denies and
\* spills nothing and keeps every group the table held.
C16_InputFitsNoOp ==
    /\ []((Ready /\ InputFitsIsIdle) =>
            \A pool \in PoolOutcomes : ensureInputFits(Self, pool) = Self)
    /\ [][(lastOp' = "addInput" /\ InputFitsIsIdle) =>
            /\ numDenied' = numDenied
            /\ UNCHANGED <<inputSpiller, spillFiles, preSpillKeys>>
            /\ Len(table') >= Len(table)
            /\ \A i \in DOMAIN table : table'[i].key = table[i].key]_vars

\* A partial aggregation with a spill config took a batch while its table
\* held groups.
C16_Witness ==
    /\ lastOp = "addInput" /\ error = "none"
    /\ cfg.isPartial /\ cfg.spillConfig
    /\ numBatches >= 2 /\ NumDistinct(table) >= 2

\* ------------------------------------------------------- isPartialFull
\* The pointer size of the build: sizeof(void*).
PointerSize == 8

HashModes == {"hash", "array", "normalizedKey"}

TableCapacities == {32, 64, 128}

TableDistinct == 0..4

ByteCounts == {0, 4096, 8191, 8192, 20000}

TableStats ==
    [hashMode : HashModes, capacity : TableCapacities,
     numDistinct : TableDistinct, allocatedBytes : ByteCounts]

\* HashTable::decideHashMode with disableRangeArrayHash: the table is
\* rehashed; what mode it ends in and what it has allocated afterwards is the
\* table's affair.
decideHashMode(s, after) ==
    [s EXCEPT !.tableStats = [@ EXCEPT !.hashMode = after.hashMode,
                                       !.allocatedBytes = after.allocatedBytes],
              !.numRehashes = @ + 1]

\* Only the table counts here: a partial aggregation has no sorted
\* aggregations, and without a table isPartialFull does not ask.
allocatedBytes(s) == IF s.tableExists THEN s.tableStats.allocatedBytes ELSE 0

\* An isPartialFull that rehashes a table that is large or sparse.
isPartialFullLargeOrSparse(s, maxBytes, after) ==
    IF ~cfg.isPartial THEN Fail(s, "isPartialFull: isPartial_")
    ELSE IF ~s.tableExists \/ allocatedBytes(s) <= maxBytes
    THEN [s EXCEPT !.flag = FALSE]
    ELSE IF s.tableStats.hashMode # "array" THEN [s EXCEPT !.flag = TRUE]
    ELSE
      LET stats == s.tableStats
          s1 == IF \/ stats.capacity * PointerSize > maxBytes \div 16
                   \/ stats.numDistinct < stats.capacity \div 32
                THEN decideHashMode(s, after) ELSE s
      IN [s1 EXCEPT !.flag = allocatedBytes(s1) > maxBytes]

\* maxBytes is a byte budget: not negative.
isPartialFull(s, maxBytes, after) ==
    IF ~cfg.isPartial THEN Fail(s, "isPartialFull: isPartial_")
    ELSE IF ~s.tableExists \/ allocatedBytes(s) <= maxBytes
    THEN [s EXCEPT !.flag = FALSE]
    ELSE IF s.tableStats.hashMode # "array" THEN [s EXCEPT !.flag = TRUE]
    ELSE
      LET stats == s.tableStats
          s1 == IF /\ stats.capacity * PointerSize > maxBytes \div 16
                   /\ stats.numDistinct < stats.capacity \div 32
                THEN decideHashMode(s, after) ELSE s
      IN [s1 EXCEPT !.flag = allocatedBytes(s1) > maxBytes]

\* A keyed grouping set over raw input, partial or not, at a moment when it
\* has or has no table, whatever the table tells about itself.
PartialFullArgs ==
    { a \in CtorArgs :
        /\ a.numKeys = 1 /\ ~a.preGrouped /\ a.aggregates = PlainAggregates
        /\ a.isRawInput /\ a.globalGroupingSets = << >>
        /\ a.groupIdChannel = 0 /\ ~a.spillConfig }

InitPartialFull ==
    /\ phase = "Constructed"
    /\ args \in PartialFullArgs
    /\ cfg = Members(args)
    /\ tableExists \in BOOLEAN
    /\ table = << >>
    /\ numInputRows = 0
    /\ noMoreInput = FALSE
    /\ hasRemaining = FALSE
    /\ remainingInput = << >>
    /\ firstRemainingRow = 0
    /\ inputSpiller = FALSE
    /\ outputSpiller = FALSE
    /\ spillFiles = NoFiles
    /\ numDistinctSpillFilesPerPartition = << >>
    /\ spillFinished = FALSE
    /\ spillPartitionSet = {}
    /\ outputSpillPartition = -1
    /\ hasMerge = FALSE
    /\ merge = << >>
    /\ mergeRowsExists = FALSE
    /\ globalAggregationInitialized = FALSE
    /\ globalRow = << >>
    /\ error = "none"
    /\ iterator = FreshIterator
    /\ ret = "none"
    /\ result = << >>
    /\ emitted = << >>
    /\ reference = NoReference
    /\ accumulated = 0
    /\ numBatches = 0
    /\ numDenied = 0
    /\ numGlobalInit = 0
    /\ preSpillKeys = {}
    /\ spilledAfterDenial = FALSE
    /\ outputReservation = FALSE
    /\ abandonedPartialAggregation = FALSE
    /\ allSupportToIntermediate = FALSE
    /\ intermediateRowsExists = FALSE
    /\ intermediateAccumulators = {}
    /\ intermediateRows = 0
    /\ lastInput = << >>
    /\ tableStats \in IF tableExists THEN TableStats ELSE {NoStats}
    /\ numRehashes = 0
    /\ maxBytesArg = 0
    /\ sortedInputRows = 0
    /\ allocatorFrozen = FALSE
    /\ allocatorMisuse = {}
    /\ nonReclaimableSection = TRUE
    /\ sectionMisuse = {}
    /\ numFinishSpill = 0
    /\ openedPartitions = << >>
    /\ getOutputTick = FALSE
    /\ lastAddCalls = {}
    /\ lastMemory = NoMemory
    /\ lastReserveCalls = << >>
    /\ lastScratchReads = {}
    /\ lastOutOfRange = FALSE
    /\ mergeRowsData = << >>
    /\ lastScratchRows = NoScratchRows
    /\ accumulatorsArg = << >>
    /\ globalLayout = NoLayout
    /\ uninitializedUse = FALSE
    /\ lastOp = "none"

IsPartialFullCall(maxBytes, after) ==
    LET s == isPartialFull([Self EXCEPT !.numRehashes = 0,
                                        !.maxBytesArg = maxBytes],
                           maxBytes, after)
    IN IF s.error # "none" THEN [s EXCEPT !.ret = "error"]
       ELSE [s EXCEPT !.ret = IF s.flag THEN "true" ELSE "false"]

IsPartialFull ==
    /\ Ready
    /\ \E maxBytes \in ByteCounts,
          after \in [hashMode : HashModes, allocatedBytes : ByteCounts] :
        /\ Commit(IsPartialFullCall(maxBytes, after))
        /\ lastOp' = "isPartialFull"
        /\ UNCHANGED <<phase, args, cfg, reference, numBatches,
                       spilledAfterDenial>>

SpecPartialFull == InitPartialFull /\ [][IsPartialFull]_vars

OverBudget == tableExists /\ tableStats.allocatedBytes > maxBytesArg'

LargeAndSparse ==
    /\ tableStats.capacity * 8 > maxBytesArg' \div 16
    /\ tableStats.numDistinct < tableStats.capacity \div 32

\* C18: isPartialFull(maxBytes) on a grouping set that is not partial fails
\* a check; on a partial one it returns false when there is no table or
\* allocatedBytes <= maxBytes, and true without a rehash when over budget
\* with a table that is not in array mode; in array mode it rehashes at most
\* once, and only if capacity * 8 > maxBytes / 16 and numDistinct <
\* capacity / 32, and returns whether allocatedBytes exceeds maxBytes then.
C18_IsPartialFull ==
    [][lastOp' = "isPartialFull" =>
        /\ ~cfg.isPartial =>
              ret' = "error" /\ numRehashes' = 0 /\ UNCHANGED tableStats
        /\ cfg.isPartial =>
              /\ error' = "none"
              /\ ~OverBudget =>
                    ret' = "false" /\ numRehashes' = 0 /\ UNCHANGED tableStats
              /\ (OverBudget /\ tableStats.hashMode # "array") =>
                    ret' = "true" /\ numRehashes' = 0 /\ UNCHANGED tableStats
              /\ (OverBudget /\ tableStats.hashMode = "array") =>
                    /\ numRehashes' <= 1
                    /\ numRehashes' = 1 => LargeAndSparse
                    /\ numRehashes' = 0 => UNCHANGED tableStats
                    /\ (ret' = "true") <=>
                           (tableStats'.allocatedBytes > maxBytesArg')
                    /\ ret' \in {"true", "false"}]_vars

\* An array-mode table over budget was rehashed and fits the budget since.
C18_Witness ==
    /\ lastOp = "isPartialFull" /\ cfg.isPartial
    /\ numRehashes = 1 /\ ret = "false"
    /\ tableStats.allocatedBytes > 0

SamePartition(rows) ==
    \A i, j \in DOMAIN rows :
        Partition(rows[i].key[1]) = Partition(rows[j].key[1])

\* C20: in merge recovery with aggregates, the rows of equal keys of the
\* merged streams are accumulated into one row: every group emitted is whole
\* (its aggregates are those of all rows of its key), no key is emitted
\* twice, over calls as within a call, and once getOutput has returned false
\* there is one row per distinct key; whatever maxOutputRows >= 1, byte budget
\* and order among equal streams the next getOutput call is given, its batch
\* holds at most maxOutputRows groups, all of one partition.
C20_MergeCutsAtKeyBoundary ==
    (phase = "Constructed" /\ ~isDistinct /\ inputSpiller) =>
        /\ EmittedSet \subseteq RefRows
        /\ NoReEmission
        /\ Exhausted => EmittedIsReference
        /\ (Ready /\ hasOutput(Self)) =>
              \A maxOutputRows \in 1..MaxOutputRows,
                 byteRows \in 1..MaxOutputRows, tieBreak \in {"low", "high"} :
                  LET s == GetOutputCall(maxOutputRows, byteRows, tieBreak)
                  IN s.error = "none" =>
                        /\ Len(s.result) <= maxOutputRows
                        /\ SamePartition(s.result)
                        /\ \A i \in DOMAIN s.result :
                               /\ s.result[i] \in RefRows
                               /\ s.result[i].key \notin
                                      {emitted[j].key : j \in DOMAIN emitted}

\* A batch of two groups of one partition, one of them merged from two runs.
C20_Witness ==
    /\ phase = "Constructed" /\ ~isDistinct /\ inputSpiller
    /\ lastOp = "getOutput" /\ ret = "true"
    /\ Len(result) = 2 /\ SamePartition(result)
    /\ \E i \in DOMAIN result : InTwoRuns(result[i].key[1])

\* ------------------------------------ partial aggregation abandonment
\* An aggregate of a partial aggregation: neither distinct nor sorted.
PartialAggregate(fn, mask, supports) ==
    [AggregateInfo(fn, FALSE, FALSE) EXCEPT
        !.mask = mask, !.supportsToIntermediate = supports]

\* No aggregate supports the shortcut; one of two does and the other has a
\* mask; both do and one has a mask.
PartialAggregateLists ==
    { PlainAggregates,
      <<PartialAggregate("count", TRUE, FALSE),
        PartialAggregate("sum", FALSE, TRUE)>>,
      <<PartialAggregate("count", FALSE, TRUE),
        PartialAggregate("sum", TRUE, TRUE)>> }

\* An accumulator list that ignores excludeToIntermediate.
accumulatorsAll(excludeToIntermediate) ==
    {<<"function", i>> : i \in DOMAIN cfg.aggregates}
        \cup (IF cfg.sortedAggregations THEN {<<"sorted", 0>>} ELSE {})
        \cup {<<"distinct", i>> :
                 i \in {j \in DOMAIN cfg.aggregates : cfg.distinctAggregations[j]}}

\* accumulators(excludeToIntermediate): the accumulators a row container is
\* built with: the function's accumulator of every aggregate (without those
\* that support the shortcut when excludeToIntermediate), the accumulator of
\* sortedAggregations_ and the one of every distinct aggregation.
accumulators(excludeToIntermediate) ==
    {<<"function", i>> :
         i \in {j \in DOMAIN cfg.aggregates :
                   ~excludeToIntermediate
                       \/ ~cfg.aggregates[j].supportsToIntermediate}}
        \cup (IF cfg.sortedAggregations THEN {<<"sorted", 0>>} ELSE {})
        \cup {<<"distinct", i>> :
                 i \in {j \in DOMAIN cfg.aggregates : cfg.distinctAggregations[j]}}

\* The two flags are set before the check of the table; table_ is
\* dereferenced without a test, so a call on a grouping set that has no table
\* does not return either.
abandonPartialAggregation(s) ==
    LET s1 == [s EXCEPT
                 !.abandonedPartialAggregation = TRUE,
                 !.allSupportToIntermediate =
                     \A i \in DOMAIN cfg.aggregates :
                         cfg.aggregates[i].supportsToIntermediate]
    IN IF ~s1.tableExists
       THEN Fail(s1, "abandonPartialAggregation: table_ is null")
       ELSE IF NumDistinct(s1.table) # 0
       THEN Fail(s1, "abandonPartialAggregation: the table holds rows")
       ELSE [s1 EXCEPT
               !.intermediateRowsExists = TRUE,
               !.intermediateAccumulators = accumulators(TRUE),
               !.intermediateRows = 0,
               !.tableExists = FALSE,
               !.table = << >>]

\* Aggregate::toIntermediate of one row, from the aggregate contract: a row
\* the mask selects gives the intermediate state of its single value, a row
\* it does not select the initial state.
FunctionToIntermediate(fn, selected, v) ==
    IF selected
    THEN ExtractAccumulator(fn, AddRawValue(fn, InitAccumulator(fn), v))
    ELSE ExtractAccumulator(fn, InitAccumulator(fn))

\* A result whose rows hold the initial state where the mask of the aggregate
\* does not select the input row.
InputInitialWhereMasked(input) ==
    [i \in DOMAIN input |->
        [ key |-> <<input[i].k>>,
          aggs |-> [j \in DOMAIN cfg.aggregates |->
                       IF Selected(j, input[i])
                       THEN IntermediateOf(cfg.aggregates[j].function,
                                           input[i].v)
                       ELSE ExtractAccumulator(
                                cfg.aggregates[j].function,
                                InitAccumulator(
                                    cfg.aggregates[j].function))] ]]

\* result = input: row i of the result is row i of the input, whose aggregate
\* columns hold the intermediate states the input carries.
InputAsResult(input) ==
    [i \in DOMAIN input |->
        [ key |-> <<input[i].k>>,
          aggs |-> [j \in DOMAIN cfg.aggregates |->
                       IntermediateOf(cfg.aggregates[j].function, input[i].v)] ]]

\* A scratch column whose rows all update the first scratch group.
ScratchColumnFirstGroup(j, input) ==
    LET fn == cfg.aggregates[j].function
        Step(a, r) == IF Selected(j, r) THEN AddRawValue(fn, a, r.v) ELSE a
    IN [i \in DOMAIN input |->
           ExtractAccumulator(
               fn, FoldLeft(Step, InitAccumulator(fn), SubSeq(input, 1, i)))]

\* The column of an aggregate without the shortcut: one scratch group per
\* input row, all of them initialized; when the mask selects no row the first
\* group is read for every row; else every selected row updates its own group
\* and every group is extracted.
ScratchColumn(j, input) ==
    LET fn == cfg.aggregates[j].function
        intermediateGroups == [i \in DOMAIN input |-> InitAccumulator(fn)]
        hasSelections == \E i \in DOMAIN input : Selected(j, input[i])
        updated == [i \in DOMAIN input |->
                       IF Selected(j, input[i])
                       THEN AddRawValue(fn, intermediateGroups[i], input[i].v)
                       ELSE intermediateGroups[i]]
    IN IF ~hasSelections
       THEN [i \in DOMAIN input |->
                ExtractAccumulator(fn, intermediateGroups[1])]
       ELSE [i \in DOMAIN input |-> ExtractAccumulator(fn, updated[i])]

\* The aggregates that go through scratch groups.
ScratchAggregates ==
    {j \in DOMAIN cfg.aggregates : ~cfg.aggregates[j].supportsToIntermediate}

\* The addRawInput calls of toIntermediate (1491-1494): for each aggregate
\* without the shortcut whose rows have a selection.
toIntermediateAddCalls(s, input) ==
    {AddCall(s, "toIntermediate", j, "function",
             getSelectivityVector(j, input, DOMAIN input),
             ~cfg.aggregates[j].mask, FALSE) :
        j \in {k \in ScratchAggregates :
                  getSelectivityVector(k, input, DOMAIN input) # {}}}

\* Every extractAccumulators call reads all the scratch groups.
toIntermediateReadsAllGroups(input) ==
    {[agg |-> j, groups |-> DOMAIN input] : j \in ScratchAggregates}

\* The scratch groups the extractAccumulators calls read (1484-1487,
\* 1496-1499): the first one for every row when the rows have no selection,
\* else the group of each row.
toIntermediateReads(input) ==
    {[agg |-> j,
      groups |-> IF getSelectivityVector(j, input, DOMAIN input) = {}
                 THEN {i \in DOMAIN input : i = 1}
                 ELSE DOMAIN input] : j \in ScratchAggregates}

\* intermediateGroups_[0] is evaluated for std::fill (1485) whenever the rows
\* of an aggregate without the shortcut have no selection: with a batch of
\* zero rows the vector is empty and the element does not exist.
toIntermediateOutOfRange(input) ==
    Len(input) = 0 /\ ScratchAggregates # {}

\* The evaluation of an element that the vector does not hold is undefined:
\* a build with container assertions aborts on it, and the read of the
\* element that std::fill makes faults when the vector never held storage;
\* otherwise the value read fills no element and the call goes on.
OutOfRangeOutcomes == {"crash", "benign"}

OutOfRange(s, outcome) ==
    IF ~s.outOfRange \/ s.error # "none" \/ outcome # "crash" THEN s
    ELSE Fail(s, "toIntermediate: intermediateGroups_[0] of an empty vector")

\* resultShared tells whether the caller holds another reference to result.
\* The scratch groups are created at the start of the call and erased at its
\* end.
toIntermediate(s, input, resultShared) ==
    IF ~s.abandonedPartialAggregation
    THEN Fail(s, "toIntermediate: abandonedPartialAggregation_ is false")
    ELSE IF resultShared
    THEN Fail(s, "toIntermediate: result is shared")
    ELSE IF ~cfg.isRawInput
    THEN [s EXCEPT !.result = InputAsResult(input)]
    ELSE
      LET numRows == Len(input)
          created == IF ~s.allSupportToIntermediate THEN numRows ELSE 0
          erased == IF s.intermediateRowsExists THEN created ELSE 0
          column(j) ==
              IF cfg.aggregates[j].supportsToIntermediate
              THEN [i \in DOMAIN input |->
                       FunctionToIntermediate(
                           cfg.aggregates[j].function,
                           Selected(j, input[i]), input[i].v)]
              ELSE ScratchColumn(j, input)
      IN [s EXCEPT
            !.result =
                [i \in DOMAIN input |->
                    [ key |-> <<input[i].k>>,
                      aggs |-> [j \in DOMAIN cfg.aggregates |-> column(j)[i]] ]],
            !.addCalls = @ \cup toIntermediateAddCalls(s, input),
            !.scratchReads = toIntermediateReads(input),
            !.scratchRows =
                [created |-> created,
                 initialized |-> [j \in ScratchAggregates |-> numRows],
                 erased |-> erased,
                 converted |-> DOMAIN cfg.aggregates \ ScratchAggregates],
            !.outOfRange = toIntermediateOutOfRange(input),
            !.intermediateRows = (@ + created) - erased]

\* A keyed partial aggregation without a spill config, over raw or
\* intermediate input.
AbandonArgs ==
    [ numKeys : {1}, preGrouped : {FALSE}, aggregates : PartialAggregateLists,
      isPartial : {TRUE}, isRawInput : BOOLEAN, globalGroupingSets : {<< >>},
      groupIdChannel : {0}, spillConfig : {FALSE} ]

ConstructAbandon ==
    phase = "Uninitialized" /\ \E a \in AbandonArgs : Construct(a)

ToIntermediateBatches == IF HasMask THEN MaskedBatches ELSE Batches

\* The batches a partial aggregation takes before it is abandoned: small ones.
AddInputPartial ==
    /\ Ready
    /\ ~noMoreInput
    /\ ~abandonedPartialAggregation
    /\ numBatches < MaxPartialBatches
    /\ ret # "false"
    /\ \E input \in {b \in ToIntermediateBatches : Len(b) <= MaxSpillBatchRows} :
        /\ Commit(addInput(Self, input, "sufficient"))
        /\ reference' = Feed(reference, input)
        /\ numBatches' = numBatches + 1
        /\ lastOp' = "addInput"
        /\ UNCHANGED <<phase, args, cfg, spilledAfterDenial>>

\* The operator flushes a partial aggregation: it calls getOutput until it
\* returns false, whether or not all input has arrived.
FlushPartial ==
    /\ Ready
    /\ cfg.isPartial /\ ~cfg.isGlobal
    /\ tableExists
    /\ \E maxOutputRows \in 1..MaxOutputRows, byteRows \in 1..MaxOutputRows :
        /\ Commit(GetOutputCall(maxOutputRows, byteRows, "low"))
        /\ lastOp' = "getOutput"
        /\ UNCHANGED <<phase, args, cfg, reference, numBatches,
                       spilledAfterDenial>>

\* The operator gives up a partial aggregation that does not reduce its
\* input, at most once.
Abandon ==
    /\ Ready
    /\ cfg.isPartial /\ ~cfg.isGlobal
    /\ ~abandonedPartialAggregation
    /\ ret # "true"
    /\ Commit(abandonPartialAggregation(Self))
    /\ lastOp' = "abandonPartialAggregation"
    /\ UNCHANGED <<phase, args, cfg, reference, numBatches,
                   spilledAfterDenial>>

\* The caller converts a batch (before the abandonment the call fails
\* whatever the batch, so one batch stands for all).  A run follows one
\* conversion after another operation; a conversion that follows a conversion
\* is the next call the formulas quantify over.
ToIntermediate ==
    /\ Ready
    /\ cfg.isPartial /\ ~cfg.isGlobal
    /\ lastOp # "toIntermediate"
    /\ \E input \in (IF abandonedPartialAggregation
                      THEN ToIntermediateBatches ELSE {<< >>}),
          resultShared \in BOOLEAN, outcome \in OutOfRangeOutcomes :
        /\ LET logged(s) ==
                   Commit(IF s.error = "none"
                          THEN [s EXCEPT !.lastInput = input] ELSE s)
           IN logged(OutOfRange(
                  toIntermediate([Self EXCEPT !.result = << >>],
                                 input, resultShared),
                  outcome))
        /\ lastOp' = "toIntermediate"
        /\ UNCHANGED <<phase, args, cfg, reference, numBatches,
                       spilledAfterDenial>>

NextAbandon ==
    \/ ConstructAbandon
    \/ AddInputPartial
    \/ FlushPartial
    \/ ResetIterator
    \/ Abandon
    \/ ToIntermediate

SpecAbandon == Init /\ [][NextAbandon]_vars

ShortcutAggregates ==
    {i \in DOMAIN cfg.aggregates : cfg.aggregates[i].supportsToIntermediate}

\* C14: abandonPartialAggregation returns only on a table that holds no row
\* (otherwise the call fails a fatal check); when it has returned the table
\* is gone, the scratch row container exists with the function accumulators
\* of exactly the aggregates that do not support the shortcut,
\* allSupportToIntermediate_ tells whether every aggregate supports it, and
\* toIntermediate, which fails its first check before the abandonment, passes
\* that check from then on.
C14_Abandon ==
    /\ [][lastOp' = "abandonPartialAggregation" =>
            IF tableExists /\ NumDistinct(table) = 0
            THEN /\ error' = "none"
                 /\ ~tableExists' /\ intermediateRowsExists'
                 /\ intermediateAccumulators' =
                        {<<"function", i>> :
                            i \in DOMAIN cfg.aggregates \ ShortcutAggregates}
                 /\ allSupportToIntermediate' <=>
                        (ShortcutAggregates = DOMAIN cfg.aggregates)
                 /\ abandonedPartialAggregation'
            ELSE error' # "none"]_vars
    /\ [][lastOp' = "toIntermediate" =>
            /\ ~abandonedPartialAggregation =>
                   error' = "toIntermediate: abandonedPartialAggregation_ is false"
            /\ abandonedPartialAggregation =>
                   error' # "toIntermediate: abandonedPartialAggregation_ is false"
            /\ UNCHANGED abandonedPartialAggregation]_vars

\* A partial aggregation that took input and flushed it was abandoned with
\* one aggregate that supports the shortcut and one that does not, and a
\* batch was converted afterwards.
C14_Witness ==
    /\ lastOp = "toIntermediate" /\ error = "none"
    /\ numInputRows > 0
    /\ ~allSupportToIntermediate
    /\ Cardinality(intermediateAccumulators) = 1
    /\ ~tableExists /\ Len(result) = MaxBatchRows

\* The intermediate state an aggregate reaches from one input row alone.
RowState(j, r) ==
    LET fn == cfg.aggregates[j].function
    IN IF cfg.isRawInput
       THEN ExtractAccumulator(fn, AddRawValue(fn, InitAccumulator(fn), r.v))
       ELSE ExtractAccumulator(
                fn, AddIntermediateValue(fn, InitAccumulator(fn),
                                         IntermediateOf(fn, r.v)))

InitialState(j) ==
    ExtractAccumulator(cfg.aggregates[j].function,
                       InitAccumulator(cfg.aggregates[j].function))

\* Row by row: the key of the input row and, per aggregate, the state of the
\* row alone, or the initial state where the mask does not select the row.
MaskedRowByRow(input) ==
    [i \in DOMAIN input |->
        [ key |-> <<input[i].k>>,
          aggs |-> [j \in DOMAIN cfg.aggregates |->
                       IF Selected(j, input[i]) THEN RowState(j, input[i])
                       ELSE InitialState(j)] ]]

\* The same, with the masks applied to raw input only.
RowByRow(input) ==
    [i \in DOMAIN input |->
        [ key |-> <<input[i].k>>,
          aggs |-> [j \in DOMAIN cfg.aggregates |->
                       IF cfg.isRawInput /\ ~Selected(j, input[i])
                       THEN InitialState(j)
                       ELSE RowState(j, input[i])] ]]

InitializeAggregateLists ==
    { <<PartialAggregate("count", TRUE, FALSE), AggregateInfo("sum", TRUE, FALSE)>>,
      <<AggregateInfo("sum", FALSE, TRUE)>> }

\* A single aggregation over raw input, keyed or global, with or without a
\* spill config.
InitializeArgs ==
    [ numKeys : {0, 1}, preGrouped : {FALSE},
      aggregates : InitializeAggregateLists,
      isPartial : {FALSE}, isRawInput : {TRUE}, globalGroupingSets : {<< >>},
      groupIdChannel : {0}, spillConfig : BOOLEAN ]

ConstructInitialize ==
    phase = "Uninitialized" /\ \E a \in InitializeArgs : Construct(a)

NextInitialize ==
    \/ ConstructInitialize
    \/ AddInput
    \/ Spill
    \/ NoMoreInput
    \/ GetOutput

SpecInitialize == Init /\ [][NextInitialize]_vars

\* C19: every accumulator a group row stores (the function's of a plain
\* aggregate, the sorted-aggregation accumulator, the accumulator of a distinct
\* aggregation) is initialized before it is updated or extracted: the rows a
\* call leaves in the table have all their accumulators initialized, also
\* when the mask of an aggregate selected no row, and no call extracts from an
\* accumulator that was not initialized.
C19_InitializedBeforeUse ==
    /\ \A g \in DOMAIN table : accumulators(FALSE) \subseteq table[g].init
    /\ \A p \in DOMAIN spillFiles : \A f \in DOMAIN spillFiles[p] :
          \A g \in DOMAIN spillFiles[p][f] :
              accumulators(FALSE) \subseteq spillFiles[p][f][g].init
    /\ globalAggregationInitialized \/ globalRow = << >>
    /\ ~uninitializedUse

\* The same for the grouping sets that have no distinct aggregation or no
\* spill config.
C19_ExceptDistinctMerge ==
    (cfg.spillConfig /\ DistinctAggregates # {}) \/ C19_InitializedBeforeUse

\* A new group whose masked aggregate saw no selected row was output.
C19_MaskedNewGroup ==
    /\ lastOp = "getOutput" /\ error = "none" /\ ~cfg.isGlobal
    /\ HasMask /\ Len(result) > 0 /\ result[1].aggs[1] = 0

\* ------------------------------------------ the runs of distinct recovery
KeysOf(rows) == {rows[i].key : i \in DOMAIN rows}

\* The keys merge recovery has taken from stream i of partition p: those of
\* the file that the reader no longer holds.
StreamConsumed(p, i) ==
    IF ~spillFinished \/ p \in spillPartitionSet THEN {}
    ELSE IF p = outputSpillPartition /\ hasMerge
    THEN KeysOf(spillFiles[p + 1][i]) \ KeysOf(merge[i])
    ELSE KeysOf(spillFiles[p + 1][i])

\* The run of key k in the merged stream of its partition is made of the
\* rows of k in the files of the partition.
RunStreams(k) ==
    {i \in DOMAIN spillFiles[Partition(k) + 1] :
        k \in KeysOf(spillFiles[Partition(k) + 1][i])}

RunStarted(k) ==
    \E i \in RunStreams(k) : k \in StreamConsumed(Partition(k), i)

RunFinished(k) ==
    /\ RunStreams(k) # {}
    /\ \A i \in RunStreams(k) : k \in StreamConsumed(Partition(k), i)

\* A row of the run comes from a stream whose id (i - 1) is below the number
\* of files the partition had at the first spill.
RunHasDistinctStream(k) ==
    \E i \in RunStreams(k) :
        i - 1 < numDistinctSpillFilesPerPartition[Partition(k) + 1]

\* C21: in the recovery of a grouping set without aggregates, between calls
\* every run of equal keys is either untouched or taken whole (a call stops
\* at a run boundary only); a run taken with a row from a stream of the first
\* spill has put no row in the output, and every other run taken exactly one.
C21_RunsOfEqualKeys ==
    (phase = "Constructed" /\ isDistinct /\ inputSpiller) =>
        /\ \A k \in Keys : RunStarted(k) => RunFinished(k)
        /\ NoReEmission
        /\ EmittedKeys =
               {k \in Keys : RunFinished(k) /\ ~RunHasDistinctStream(k)}

\* A call has output a key whose run spans two streams, after a run with a
\* row of the first spill was taken and put nothing in the output.
C21_Witness ==
    /\ phase = "Constructed" /\ isDistinct /\ inputSpiller
    /\ lastOp = "getOutput" /\ ret = "true"
    /\ \E k \in EmittedKeys : Cardinality(RunStreams(k)) >= 2
    /\ \E k \in Keys : RunFinished(k) /\ RunHasDistinctStream(k)

\* ------------------------------------------------- the effect of spill()
\* The file a spill() step added to partition p, if any.
NewFile(p) ==
    IF Len(spillFiles'[p + 1]) = Len(spillFiles[p + 1]) + 1
    THEN spillFiles'[p + 1][Len(spillFiles'[p + 1])]
    ELSE << >>

NewFileKeys(p) == KeysOf(NewFile(p))

\* The files the input spiller held before the step are still its files.
SpillerKept ==
    \A p \in 0..(NumPartitions - 1) :
        /\ Len(spillFiles'[p + 1]) >= Len(spillFiles[p + 1])
        /\ SubSeq(spillFiles'[p + 1], 1, Len(spillFiles[p + 1]))
               = spillFiles[p + 1]

\* C22: a spill() on a table with at least one group succeeds and leaves a
\* table without groups, sortedAggregations_ without buffered rows and
\* hasSpilled() true; each group that was in the table is in the file the
\* call added to exactly one partition, with its accumulators; and a spill()
\* after the first one keeps the input spiller and all its earlier files.
C22_Spill ==
    [][(lastOp' = "spill" /\ NumDistinct(table) >= 1) =>
          /\ error' = "none"
          /\ tableExists' /\ NumDistinct(table') = 0
          /\ sortedInputRows' = 0
          /\ inputSpiller' /\ ~outputSpiller'
          /\ \A i \in DOMAIN table :
                /\ Cardinality({p \in 0..(NumPartitions - 1) :
                       table[i].key \in NewFileKeys(p)}) = 1
                /\ \E p \in 0..(NumPartitions - 1) :
                       \E j \in DOMAIN NewFile(p) : NewFile(p)[j] = table[i]
          /\ SpillerKept]_vars

\* A second spill() has run: the table is empty, sortedAggregations_ holds
\* nothing although it was given rows, and one partition has two files.
C22_Witness ==
    /\ lastOp = "spill" /\ error = "none"
    /\ cfg.sortedAggregations
    /\ NumDistinct(table) = 0 /\ sortedInputRows = 0 /\ accumulated >= 2
    /\ \E p \in 0..(NumPartitions - 1) : Len(spillFiles[p + 1]) >= 2

\* ------------------------------------------- the freeze of the allocator
\* C23: the string allocator is frozen around the write of the input spiller
\* and of the output spiller and at no other time: it is not frozen when a
\* call returns, no spill write ran with the allocator not frozen, the table
\* was never cleared with it frozen, and no accumulator of the grouping set
\* was initialized, updated or extracted with it frozen, whatever the order
\* of addInput, the spills a reservation or the operator triggers, and
\* getOutput.
C23_FrozenDuringSpillWrite ==
    /\ ~allocatorFrozen
    /\ allocatorMisuse = {}
    /\ error # "freeze: the allocator is frozen"

\* A reservation of addInput spilled the table and the batch was accumulated
\* after it, in a grouping set that had spilled before.
C23_Witness ==
    /\ lastOp = "addInput" /\ error = "none"
    /\ inputSpiller /\ NumDistinct(table) > 0
    /\ \E p \in 0..(NumPartitions - 1) : Len(spillFiles[p + 1]) >= 2
    /\ ~allocatorFrozen /\ allocatorMisuse = {}

\* An output spill has written the rows getOutput had not yet returned.
C23_WitnessOutput ==
    /\ lastOp = "spillOutput" /\ error = "none" /\ outputSpiller
    /\ emitted # << >> /\ spillFiles[1] # << >>
    /\ ~allocatorFrozen /\ allocatorMisuse = {}

\* ---------------------------------------------- the reclaimable section
\* C24: *nonReclaimableSection_ is cleared only around the reservation call
\* of ensureInputFits and ensureOutputFits and is set again when the call
\* returns: every call of the grouping set returns with the flag set, no
\* accumulator call runs with the flag cleared, a reclaim the arbitrator asks
\* for between the probe of a batch and its accumulator updates does not
\* spill, and no reservation starts while another one is running.
C24_ReclaimableOnlyWhileReserving ==
    /\ nonReclaimableSection
    /\ sectionMisuse = {}

\* The reservation of addInput reclaimed from this grouping set, whose
\* spill() ran inside it, and the batch was accumulated after it.
C24_Witness ==
    /\ lastOp = "addInput" /\ error = "none"
    /\ cfg.spillConfig /\ ~cfg.isPartial
    /\ inputSpiller /\ NumDistinct(table) > 0
    /\ nonReclaimableSection /\ sectionMisuse = {}

\* ------------------------------------------ the partitions of recovery
NonEmptyPartitions == {p \in Partitions : spillFiles[p + 1] # << >>}

Opened == {openedPartitions[i] : i \in DOMAIN openedPartitions}

\* C25: in merge recovery the spiller is finalized once and no more; a
\* partition without a file is never opened; a partition with a file is
\* opened at most once, leaves the partition set when it is opened and has
\* been opened by the time recovery reports the end of the output; two
\* partitions opened one after the other differ; and recovery reports the end
\* of the output only with an empty partition set.
C25_PartitionsOpenedOnce ==
    /\ numFinishSpill <= 1
    /\ (spillFinished \/ hasMerge \/ outputSpillPartition # -1)
           => numFinishSpill = 1
    /\ ~spillFinished => (openedPartitions = << >> /\ ~hasMerge)
    /\ Opened \subseteq NonEmptyPartitions
    /\ Cardinality(Opened) = Len(openedPartitions)
    /\ \A i \in 1..(Len(openedPartitions) - 1) :
           openedPartitions[i] # openedPartitions[i + 1]
    /\ spillPartitionSet \cap Opened = {}
    /\ spillFinished => (spillPartitionSet \cup Opened = NonEmptyPartitions)
    /\ hasMerge => outputSpillPartition = openedPartitions[Len(openedPartitions)]
    /\ (hasSpilled(Self) /\ lastOp = "getOutput" /\ ret = "false")
           => (spillPartitionSet = {} /\ Opened = NonEmptyPartitions)

\* Recovery has reported the end of the output after it opened both
\* partitions, one after the other.
C25_Witness ==
    /\ hasSpilled(Self) /\ lastOp = "getOutput" /\ ret = "false"
    /\ Len(openedPartitions) = 2 /\ numFinishSpill = 1
    /\ spillPartitionSet = {}

\* Recovery skipped a partition that never got a file.
C25_WitnessEmptyPartition ==
    /\ hasSpilled(Self) /\ lastOp = "getOutput" /\ ret = "false"
    /\ Len(openedPartitions) = 1 /\ NonEmptyPartitions # Partitions

\* ------------------------------------------------ the end of the output
\* Global aggregations, keyed ones without a spill config, and keyed ones
\* with a spill config, which recover from an input or an output spill.
DrainArgs == SpillArgs \cup NoSpillArgs \cup GlobalArgs

ConstructDrain == phase = "Uninitialized" /\ \E a \in DrainArgs : Construct(a)

\* Batches of at most one row, which the pool's reservation covers.
AddInputDrain ==
    /\ Ready
    /\ ~noMoreInput
    /\ numBatches < MaxBatches
    /\ ret # "false"
    /\ \E input \in {b \in Batches : Len(b) <= MaxSpillBatchRows} :
        /\ Commit(addInput(Self, input, "sufficient"))
        /\ reference' = Feed(reference, input)
        /\ numBatches' = numBatches + 1
        /\ lastOp' = "addInput"
        /\ UNCHANGED <<phase, args, cfg, spilledAfterDenial>>

\* The precondition of GetOutput: the caller may ask for output.
MayGetOutput ==
    /\ Ready
    /\ hasOutput(Self)
    /\ isDistinct /\ ~cfg.isGlobal =>
           hasSpilled(Self) \/ hasDefaultGlobalGroupingSetOutput(Self)

\* getOutput as GetOutput calls it; the tick tells two calls apart even when
\* the second one leaves the grouping set as the first one left it.
GetOutputDrain ==
    /\ MayGetOutput
    /\ \E maxOutputRows \in 1..MaxOutputRows, byteRows \in 1..MaxOutputRows,
          tieBreak \in {"low", "high"} :
        /\ Commit([GetOutputCall(maxOutputRows, byteRows, tieBreak)
                      EXCEPT !.getOutputTick = ~@])
        /\ lastOp' = "getOutput"
        /\ UNCHANGED <<phase, args, cfg, reference, numBatches,
                       spilledAfterDenial>>

NextDrain ==
    \/ ConstructDrain
    \/ AddInputDrain
    \/ Spill
    \/ NoMoreInput
    \/ SpillOutput
    \/ GetOutputDrain

\* A step of GetOutputDrain, told by its precondition and its tick.
GetOutputStep == MayGetOutput /\ getOutputTick' = ~getOutputTick

\* The caller keeps calling getOutput for as long as hasOutput() holds.
SpecDrain ==
    Init /\ [][NextDrain]_vars /\ WF_getOutputTick(GetOutputStep)

\* C26: once noMoreInput has returned, a caller that may call getOutput and
\* keeps calling it with maxOutputRows >= 1 gets a call that returns false,
\* in global mode, in keyed mode without spill and in the recovery from an
\* input or an output spill.
C26_OutputEnds == (lastOp = "noMoreInput" /\ MayGetOutput) ~> (ret = "false")

\* Recovery from an input spill has returned false after two calls that
\* returned rows.
C26_Witness ==
    /\ noMoreInput /\ lastOp = "getOutput" /\ ret = "false" /\ error = "none"
    /\ inputSpiller /\ Len(emitted) >= 2

\* -------------------------------------------- the cut of pre-grouped input
\* The rows of remainingInput_ that wait for the next call.
DeferredRows ==
    IF hasRemaining
    THEN SubSeq(remainingInput, firstRemainingRow + 1, Len(remainingInput))
    ELSE << >>

\* The rows of a batch before its maximal trailing run of equal keys; the
\* whole batch when no two adjacent rows differ.
BeforeTrailingRun(input) ==
    LET differ == {b \in 1..(Len(input) - 1) : input[b].k # input[b + 1].k}
    IN IF differ = {} THEN Len(input)
       ELSE CHOOSE b \in differ : \A c \in differ : c <= b

\* C27: over pre-grouped keys, an addInput first accumulates the rows deferred
\* by the call before it, then the rows of its batch that come before the
\* last position where two adjacent rows differ on the key, and defers
\* exactly the rows after that position; a batch without such a position is
\* accumulated whole and defers nothing; noMoreInput accumulates the rows
\* still deferred and leaves none.
C27_PreGroupedCut ==
    (Ready /\ cfg.preGrouped /\ ~noMoreInput) =>
        /\ \A input \in PreGroupedBatches :
             IsPreGrouped(reference, input) =>
               LET s == addInput(Self, input, "sufficient")
                   b == BeforeTrailingRun(input)
                   taken == DeferredRows \o SubSeq(input, 1, b)
               IN /\ s.error = "none"
                  /\ s.table = ProbeRows(table, taken, 0, Len(taken))
                  /\ s.accumulated = accumulated + Len(taken)
                  /\ s.hasRemaining = (b < Len(input))
                  /\ s.hasRemaining =>
                       SubSeq(s.remainingInput, s.firstRemainingRow + 1,
                              Len(s.remainingInput))
                           = SubSeq(input, b + 1, Len(input))
        /\ LET s == noMoreInputOf(Self, "sufficient")
           IN /\ s.error = "none"
              /\ s.table = ProbeRows(table, DeferredRows, 0, Len(DeferredRows))
              /\ s.accumulated = accumulated + Len(DeferredRows)
              /\ ~s.hasRemaining

\* The second batch was cut: the row the first batch deferred and the first
\* row of the second batch are accumulated, its last row waits.
C27_Witness ==
    /\ Ready /\ cfg.preGrouped /\ lastOp = "addInput"
    /\ numBatches = 2 /\ hasRemaining /\ Len(DeferredRows) = 1
    /\ accumulated = 3

\* ------------------------------------------- the calls that hand input over
\* A plain aggregate with a mask; count(*) next to a distinct aggregate; a
\* plain aggregate and one with sorting keys over the same column; a distinct
\* aggregate with a mask; an aggregate with a mask next to one without.
AddCallAggregateLists ==
    { <<PartialAggregate("sum", TRUE, FALSE)>>,
      <<[AggregateInfo("count", FALSE, FALSE) EXCEPT !.inputs = << >>],
        AggregateInfo("sum", TRUE, FALSE)>>,
      <<AggregateInfo("sum", FALSE, FALSE), AggregateInfo("sum", FALSE, TRUE)>>,
      <<[AggregateInfo("sum", TRUE, FALSE) EXCEPT !.mask = TRUE]>>,
      <<PartialAggregate("count", TRUE, FALSE),
        AggregateInfo("sum", FALSE, FALSE)>> }

\* A single aggregation over raw input, keyed or global, with or without a
\* spill config.
AddCallArgs ==
    [ numKeys : {0, 1}, preGrouped : {FALSE},
      aggregates : AddCallAggregateLists,
      isPartial : {FALSE}, isRawInput : {TRUE}, globalGroupingSets : {<< >>},
      groupIdChannel : {0}, spillConfig : BOOLEAN ]

ConstructAddCalls ==
    phase = "Uninitialized" /\ \E a \in AddCallArgs : Construct(a)

\* The batches: up to MaxBatchRows rows of keys up to MaxAddCallKey and one
\* value, the mask column varying where an aggregate has a mask.
MaxAddCallKey == 2

AddCallRows ==
    [k : 1..MaxAddCallKey, v : {1}, m : IF HasMask THEN BOOLEAN ELSE {TRUE}]

AddCallBatches == UNION {[1..n -> AddCallRows] : n \in 0..MaxBatchRows}

\* addInput(input, mayPushdown): the caller chooses mayPushdown, and the
\* column v of the batch is a lazy vector that was not loaded, or it is not.
AddInputPushdown ==
    /\ Ready
    /\ ~noMoreInput
    /\ numBatches < MaxBatches
    /\ ret # "false"
    /\ \E input \in AddCallBatches, pool \in PoolChoices,
          mayPushdown \in BOOLEAN, lazyNotLoaded \in BOOLEAN :
        /\ Commit(addInput([Self EXCEPT !.mayPushdown = mayPushdown,
                                        !.lazyNotLoaded = lazyNotLoaded,
                                        !.lastInput = input],
                           input, pool))
        /\ reference' = Feed(reference, input)
        /\ numBatches' = numBatches + 1
        /\ lastOp' = "addInput"
        /\ UNCHANGED <<phase, args, cfg, spilledAfterDenial>>

NextAddCalls ==
    \/ ConstructAddCalls
    \/ AddInputPushdown
    \/ Spill
    \/ NoMoreInput
    \/ GetOutput

SpecAddCalls == Init /\ [][NextAddCalls]_vars

\* The accumulator family of an aggregate.
Family(i) ==
    IF cfg.aggregates[i].sortingKeys THEN "sorted"
    ELSE IF cfg.aggregates[i].distinct THEN "distinct"
    ELSE "function"

\* C28: on every accumulate path (keyed addInput, global addInput, updateRow
\* in merge recovery) an aggregate is handed input through one accumulator
\* family only: sortedAggregations_ if it has sorting keys, otherwise its
\* distinct aggregation if it is distinct, otherwise its function's add; the
\* function's add is never applied to a distinct or a sorted aggregate.
C28_OneAccumulatorFamily ==
    \A c \in lastAddCalls : c.family = Family(c.agg)

\* The same for the calls of addInput, keyed and global, and for the calls
\* updateRow makes for the aggregates that are not distinct.
C28_ExceptMergeDistinct ==
    \A c \in lastAddCalls :
        (c.path # "merge" \/ ~cfg.aggregates[c.agg].distinct) =>
            c.family = Family(c.agg)

\* A getOutput call in merge recovery handed a row of a spill stream to the
\* function of a distinct aggregate.
C28_MergeDistinct ==
    /\ lastOp = "getOutput"
    /\ \E c \in lastAddCalls :
          /\ c.path = "merge" /\ c.family = "function"
          /\ cfg.aggregates[c.agg].distinct

\* Calls of the three families were made on the keyed and the global path.
C28_KeyedFamilies ==
    /\ lastOp = "addInput" /\ error = "none"
    /\ \E c \in lastAddCalls : c.family = "distinct" /\ c.path = "keyed"
    /\ \E c \in lastAddCalls : c.family = "function" /\ c.path = "keyed"

\* Every input channel of aggregate i is named once in the input lists of
\* all the aggregates.
SinglyReferenced(i) ==
    \A j \in DOMAIN cfg.aggregates[i].inputs :
        channelUseCount(cfg.aggregates, cfg.aggregates[i].inputs[j]) = 1

\* What pushdown = true requires of a call, the row set apart.
PushdownRequires(c) ==
    /\ c.mayPushdown
    /\ SinglyReferenced(c.agg)
    /\ c.lazyNotLoaded

\* C29: an add call is given pushdown = true only if the caller passed
\* mayPushdown = true, every input channel of the aggregate is referenced
\* once across the input lists of all aggregates, all its argument vectors
\* are lazy and not loaded, and the rows it is called with are the active
\* rows themselves, no mask applied; in keyed and in global mode alike.
C29_PushdownOnlyWhenLegal ==
    \A c \in lastAddCalls :
        c.pushdown => PushdownRequires(c) /\ c.isActiveRows

\* The same with the row set required in keyed mode only.
C29_ExceptGlobalRows ==
    \A c \in lastAddCalls :
        c.pushdown => /\ PushdownRequires(c)
                      /\ c.path = "keyed" => c.isActiveRows

\* Global mode: the function of an aggregate with a mask was called with the
\* rows its mask selects and pushdown = true.
C29_GlobalMaskedPushdown ==
    /\ lastOp = "addInput" /\ error = "none" /\ cfg.isGlobal
    /\ \E c \in lastAddCalls :
          /\ c.pushdown /\ cfg.aggregates[c.agg].mask
          /\ c.rows # {} /\ c.rows # DOMAIN lastInput

\* Keyed mode: a call with pushdown = true, and the call of an aggregate with
\* a mask that met every other condition and was given pushdown = false.
C29_KeyedPushdown ==
    /\ lastOp = "addInput" /\ error = "none" /\ ~cfg.isGlobal
    /\ \E c \in lastAddCalls :
          \/ c.pushdown
          \/ /\ cfg.aggregates[c.agg].mask /\ c.family = "function"
             /\ PushdownRequires(c) /\ ~c.pushdown

\* The rows of the last batch that the mask column of aggregate i selects:
\* all of them when the aggregate has no mask.
MaskSelects(i) ==
    {j \in DOMAIN lastInput : cfg.aggregates[i].mask => lastInput[j].m}

CallsOf(i) == {c \in lastAddCalls : c.agg = i}

\* The add calls of a batch: one call per aggregate without sorting keys
\* whose mask selects a row, with the rows the mask selects.
CallsOfMaskedRows ==
    (lastOp = "addInput" /\ error = "none") =>
        \A i \in NonSortedAggregates :
            IF MaskSelects(i) = {} THEN CallsOf(i) = {}
            ELSE \E c \in lastAddCalls :
                    /\ CallsOf(i) = {c}
                    /\ c.rows = MaskSelects(i)
                    /\ c.family # "sorted"

\* The count of aggregate i in the global row, 0 before the row exists.
GlobalCount(i) == IF globalAggregationInitialized THEN globalRow[i] ELSE 0

\* C30: for each batch and each aggregate without sorting keys, the rows
\* handed to the aggregate are the active rows its mask column selects, or
\* all the active rows when it has no mask; an aggregate whose mask selects
\* no row of the batch gets no add call for the batch, and the calls of the
\* other aggregates are what they would be without it.  In global mode a
\* count grows with a batch by the number of rows its mask selects.
C30_MaskedRows ==
    /\ []CallsOfMaskedRows
    /\ [][(lastOp' = "addInput" /\ error' = "none" /\ cfg.isGlobal) =>
            \A i \in PlainAggregateIndices :
                cfg.aggregates[i].function = "count" =>
                    GlobalCount(i)' =
                        GlobalCount(i) + Cardinality(MaskSelects(i)')]_vars

\* A batch of two rows was added of which the mask of one aggregate selected
\* none, and the other aggregate took both rows; or of which the mask
\* selected the second row only, and the aggregate took that row.
C30_Witness ==
    /\ lastOp = "addInput" /\ error = "none"
    /\ Len(lastInput) = MaxBatchRows
    /\ \E i \in NonSortedAggregates :
          /\ cfg.aggregates[i].mask
          /\ MaskSelects(i) = {}
          /\ CallsOf(i) = {}
          /\ (cfg.isGlobal /\ cfg.aggregates[i].function = "count") =>
                 GlobalCount(i) = 0
          /\ \E c \in lastAddCalls : c.agg # i /\ c.rows = DOMAIN lastInput

\* The mask of an aggregate selected the second row of a batch of two only.
C30_WitnessPartly ==
    /\ lastOp = "addInput" /\ error = "none"
    /\ \E i \in NonSortedAggregates :
          /\ MaskSelects(i) = {MaxBatchRows}
          /\ \E c \in CallsOf(i) : c.rows = {MaxBatchRows}

\* ------------------------------------------- the reservation of addInput
\* The numbers ensureInputFits may read, chosen around its thresholds: a
\* usage of which the percentages give 0 or a few bytes, an available
\* reservation just below and above them and at and above twice the largest
\* increment, a table and a row container that grow or do not, free rows at
\* and above the size of the batch, out-of-line bytes in use or not with free
\* bytes below and at twice the flat size of the batch.
MinSpillableReservationPct == 5
SpillableReservationGrowthPct == 10
UsageUnit == 100
IncrementUnit == 4
FlatBytes == 2

MemoryStats(inputSize) ==
    [ known : {TRUE},
      currentUsage : {0, UsageUnit},
      minSpillableReservationPct : {MinSpillableReservationPct},
      spillableReservationGrowthPct : {SpillableReservationGrowthPct},
      availableReservationBytes :
          {IncrementUnit, 2 * IncrementUnit, 2 * IncrementUnit + 1,
           4 * IncrementUnit, 4 * IncrementUnit + 1},
      tableIncrementBytes : {0, IncrementUnit},
      sizeIncrement : {0, IncrementUnit},
      freeRows : {inputSize, inputSize + 1},
      outOfLineFreeBytes : {2 * FlatBytes - 1, 2 * FlatBytes},
      retainedSize : {2 * FlatBytes, 2 * FlatBytes + 1},
      flatBytes : {FlatBytes},
      inputSize : {inputSize} ]

\* A single or partial keyed aggregation, with or without a spill config.
ReserveArgs ==
    { a \in CtorArgs :
        /\ a.numKeys = 1 /\ ~a.preGrouped /\ a.aggregates = PlainAggregates
        /\ a.isRawInput /\ a.globalGroupingSets = << >>
        /\ a.groupIdChannel = 0 }

ConstructReserve ==
    phase = "Uninitialized" /\ \E a \in ReserveArgs : Construct(a)

\* Before the table holds a group ensureInputFits returns without reading
\* the numbers (868-872): one choice stands for all of them.
MemoryChoices(inputSize) ==
    IF tableExists /\ NumDistinct(table) > 0 THEN MemoryStats(inputSize)
    ELSE {CHOOSE m \in MemoryStats(inputSize) : TRUE}

\* Batches of MaxSpillBatchRows rows of one value.
ReserveBatches ==
    {b \in Batches :
        Len(b) = MaxSpillBatchRows /\ \A j \in DOMAIN b : b[j].v = 1}

\* addInput with the numbers ensureInputFits reads; the pool grants or denies
\* what is asked of it, and its arbitration may reclaim from this operator.
AddInputMemory ==
    /\ Ready
    /\ ~noMoreInput
    /\ numBatches < MaxBatches
    /\ \E input \in ReserveBatches, pool \in PoolOutcomes \ {"sufficient"} :
        \E m \in MemoryChoices(Len(input)) :
            /\ Commit(addInput([Self EXCEPT !.memory = m], input, pool))
            /\ reference' = Feed(reference, input)
            /\ numBatches' = numBatches + 1
            /\ lastOp' = "addInput"
            /\ UNCHANGED <<phase, args, cfg, spilledAfterDenial>>

NextReserve ==
    \/ ConstructReserve
    \/ AddInputMemory

SpecReserve == Init /\ [][NextReserve]_vars

\* The condition under which no reservation is attempted, in the numbers of
\* the last call.
NoAttempt ==
    LET m == lastMemory
        minBytes == (m.currentUsage * m.minSpillableReservationPct) \div 100
        increment == m.sizeIncrement + m.tableIncrementBytes
        outOfLine == m.retainedSize - m.outOfLineFreeBytes
    IN /\ m.availableReservationBytes >= minBytes
       /\ \/ /\ m.tableIncrementBytes = 0
             /\ m.freeRows > m.inputSize
             /\ outOfLine = 0 \/ m.outOfLineFreeBytes >= 2 * m.flatBytes
          \/ m.availableReservationBytes > 2 * increment

\* The amount to reserve otherwise.
AttemptBytes ==
    LET m == lastMemory
        twice == 2 * (m.sizeIncrement + m.tableIncrementBytes)
        growth == (m.currentUsage * m.spillableReservationGrowthPct) \div 100
    IN IF twice >= growth THEN twice ELSE growth

\* C31: with a spill config, not partial, and a table that holds a group,
\* ensureInputFits attempts no reservation if availableReservation >=
\* usedBytes * minSpillableReservationPct / 100 and either (the table does
\* not grow, there are more free rows than rows in the batch, and the
\* out-of-line bytes are 0 or the free out-of-line bytes are at least twice
\* the flat size of the batch) or availableReservation > 2 * incrementBytes;
\* otherwise it calls maybeReserve once, with max(2 * incrementBytes,
\* usedBytes * spillableReservationGrowthPct / 100).
C31_ReservationArithmetic ==
    [][(/\ lastOp' = "addInput" /\ lastMemory'.known
        /\ cfg.spillConfig /\ ~cfg.isPartial
        /\ tableExists /\ NumDistinct(table) > 0) =>
           IF NoAttempt' THEN lastReserveCalls' = << >>
           ELSE lastReserveCalls' = <<AttemptBytes'>>]_vars

\* A call whose reservation covered the minimum but neither the free space
\* nor twice the increment, and that asked for the share of the usage, which
\* was larger than twice the increment.
C31_Witness ==
    /\ lastOp = "addInput" /\ error = "none" /\ lastMemory.known
    /\ cfg.spillConfig /\ ~cfg.isPartial /\ numBatches = MaxBatches
    /\ lastMemory.availableReservationBytes >=
           (lastMemory.currentUsage * lastMemory.minSpillableReservationPct)
               \div 100
    /\ lastMemory.availableReservationBytes =
           2 * (lastMemory.sizeIncrement + lastMemory.tableIncrementBytes)
    /\ lastMemory.sizeIncrement + lastMemory.tableIncrementBytes
           = IncrementUnit
    /\ lastReserveCalls =
           <<(lastMemory.currentUsage
                  * lastMemory.spillableReservationGrowthPct) \div 100>>
    /\ lastReserveCalls # <<2 * IncrementUnit>>

\* A call that found more than twice the increment available and asked for
\* nothing although the table grows.
C31_WitnessNoAttempt ==
    /\ lastOp = "addInput" /\ error = "none" /\ lastMemory.known
    /\ cfg.spillConfig /\ ~cfg.isPartial /\ numBatches = MaxBatches
    /\ lastMemory.tableIncrementBytes > 0
    /\ NoAttempt /\ lastReserveCalls = << >>

\* ------------------------------------------------------------------ C32
\* The aggregates of the last toIntermediate call whose rows had no selection
\* and that go through scratch groups.
UnselectedScratchAggregates ==
    {j \in ScratchAggregates :
        getSelectivityVector(j, lastInput, DOMAIN lastInput) = {}}

\* C32: after a toIntermediate call over raw input, for an aggregate without
\* the to-intermediate shortcut whose mask selects no row of the batch, every
\* row of the aggregate's result column holds the freshly initialized
\* accumulator, the extraction read no scratch group but the first one, and
\* no addRawInput call was made for the aggregate.
C32_MaskSelectsNoRow ==
    (lastOp = "toIntermediate" /\ error = "none" /\ cfg.isRawInput) =>
        \A j \in UnselectedScratchAggregates :
            /\ Len(result) = Len(lastInput)
            /\ \A i \in DOMAIN result :
                  result[i].aggs[j] =
                      ExtractAccumulator(
                          cfg.aggregates[j].function,
                          InitAccumulator(cfg.aggregates[j].function))
            /\ \A c \in lastScratchReads :
                  c.agg = j => c.groups = {i \in DOMAIN lastInput : i = 1}
            /\ \E c \in lastScratchReads : c.agg = j
            /\ \A c \in lastAddCalls : c.agg # j

\* A batch of two rows none of which the mask of a scratch aggregate selects.
C32_Witness ==
    /\ lastOp = "toIntermediate" /\ error = "none" /\ cfg.isRawInput
    /\ Len(lastInput) = 2 /\ Len(result) = 2
    /\ \E j \in UnselectedScratchAggregates :
          [agg |-> j, groups |-> {1}] \in lastScratchReads

\* ------------------------------------------------------------------ C33
\* The operations of a single aggregation, which may spill and merge, and
\* those of a partial aggregation, which may be abandoned: the operator calls
\* the ones that go with the configuration.
NextScratch ==
    \/ (phase = "Uninitialized" \/ ~cfg.isPartial) /\ NextDrain
    \/ (phase = "Uninitialized" \/ cfg.isPartial) /\ NextAbandon

SpecScratch == Init /\ [][NextScratch]_vars

\* C33: scratch rows do not outlive the operation that created them: the
\* scratch container of toIntermediate holds no row after any call (every
\* row the call allocated was initialized by every aggregate that goes
\* through scratch groups, and then erased), and the container of the merge
\* holds no row after any getOutput of merge recovery.
C33_ScratchRowsErased ==
    /\ intermediateRows = 0
    /\ lastOp = "toIntermediate" =>
          /\ lastScratchRows.erased = lastScratchRows.created
          /\ \A j \in DOMAIN lastScratchRows.initialized :
                lastScratchRows.initialized[j] = lastScratchRows.created
          /\ (error = "none" /\ cfg.isRawInput /\ ScratchAggregates # {}) =>
                /\ lastScratchRows.created = Len(lastInput)
                /\ DOMAIN lastScratchRows.initialized = ScratchAggregates
    /\ mergeRowsData = << >>

\* A getOutput of merge recovery that extracted two merged rows.
C33_Witness ==
    /\ lastOp = "getOutput" /\ error = "none"
    /\ mergeRowsExists /\ hasMerge
    /\ Len(result) = 2

\* A toIntermediate call that allocated, initialized and erased two rows.
C33_WitnessToIntermediate ==
    /\ lastOp = "toIntermediate" /\ error = "none"
    /\ lastScratchRows.created = 2 /\ lastScratchRows.erased = 2

\* ------------------------------------------------------------------ C39
\* C39: toIntermediate over a batch of zero rows, with an aggregate that lacks
\* the to-intermediate shortcut, returns a result of zero rows and reads no
\* scratch group that was not allocated for the batch: it never evaluates
\* element 0 of an empty scratch-group list.
C39_ZeroRowBatch ==
    lastOp = "toIntermediate" =>
        /\ ~lastOutOfRange
        /\ (error = "none" /\ cfg.isRawInput /\ ScratchAggregates # {}
                /\ Len(lastInput) = 0) =>
               /\ result = << >>
               /\ \A c \in lastScratchReads : c.groups = {}

\* What holds of the zero-row call: when it returns, the result has no row,
\* no scratch row was allocated, no group was extracted and no addRawInput
\* call was made.
C39_ZeroRowsWhenReturned ==
    (lastOp = "toIntermediate" /\ error = "none" /\ cfg.isRawInput
         /\ ScratchAggregates # {} /\ Len(lastInput) = 0) =>
        /\ result = << >>
        /\ lastScratchRows.created = 0
        /\ \A c \in lastScratchReads : c.groups = {}
        /\ lastAddCalls = {}

\* The zero-row call evaluated intermediateGroups_[0] and returned.
C39_OutOfRangeReturned ==
    /\ lastOp = "toIntermediate" /\ error = "none"
    /\ lastOutOfRange /\ lastInput = << >> /\ result = << >>

\* The zero-row call evaluated intermediateGroups_[0] and crashed.
C39_OutOfRangeCrashed ==
    /\ lastOp = "toIntermediate" /\ error # "none"
    /\ lastOutOfRange

\* ------------------------------------------------------------------ C40
\* C40: over intermediate input, a toIntermediate call after the abandonment
\* that returns gives the input batch itself as the result: row i of the
\* result has the key and the intermediate states input row i carries,
\* whatever the masks; the call allocates no scratch row, calls no aggregate
\* function (no conversion, no initialization, no add call, no extraction)
\* and evaluates no scratch group.
C40_IntermediateInputIsResult ==
    (lastOp = "toIntermediate" /\ error = "none" /\ ~cfg.isRawInput) =>
        /\ Len(result) = Len(lastInput)
        /\ \A i \in DOMAIN result :
              /\ result[i].key = <<lastInput[i].k>>
              /\ \A j \in DOMAIN cfg.aggregates :
                    result[i].aggs[j] =
                        IntermediateOf(cfg.aggregates[j].function,
                                       lastInput[i].v)
        /\ lastScratchRows = NoScratchRows
        /\ lastAddCalls = {}
        /\ lastScratchReads = {}
        /\ ~lastOutOfRange
        /\ intermediateRows = 0

\* A batch of intermediate input of two rows, one of which the mask of an
\* aggregate does not select, came back as the result.
C40_Witness ==
    /\ lastOp = "toIntermediate" /\ error = "none" /\ ~cfg.isRawInput
    /\ abandonedPartialAggregation
    /\ Len(lastInput) = 2 /\ Len(result) = 2
    /\ \E j \in DOMAIN cfg.aggregates :
          cfg.aggregates[j].mask /\ ~lastInput[2].m

\* ------------------------------------------------------------------ C35
\* The members of the grouping set that tell what it holds and what it has
\* spilled.
SpillMembers ==
    << tableExists, table, numInputRows, noMoreInput, hasRemaining,
       remainingInput, firstRemainingRow, inputSpiller, outputSpiller,
       spillFiles, numDistinctSpillFilesPerPartition, spillFinished,
       spillPartitionSet, outputSpillPartition, hasMerge, merge,
       mergeRowsExists, mergeRowsData, iterator, error >>

\* C35: spill() called when no table exists or when the table holds no group
\* changes nothing: no spiller is created, no spill file is written, and
\* hasSpilled() and the spill partition set are as before.
C35_SpillOfNothing ==
    [][(lastOp' = "spill" /\ (~tableExists \/ NumDistinct(table) = 0)) =>
          /\ UNCHANGED SpillMembers
          /\ error' = "none"
          /\ hasSpilled([inputSpiller |-> inputSpiller',
                         outputSpiller |-> outputSpiller'])
                = hasSpilled(Self)]_vars

\* spill() was called after merge recovery had begun.
C35_Witness ==
    /\ lastOp = "spill" /\ error = "none"
    /\ outputSpillPartition # -1
    /\ NumDistinct(table) = 0

\* spill() was called before any input: no table, no spiller.
C35_WitnessNoTable ==
    /\ lastOp = "spill" /\ error = "none"
    /\ ~tableExists /\ ~inputSpiller /\ ~outputSpiller /\ spillFiles = NoFiles

\* spill() has left an input spiller and a table without groups, the state
\* the next spill() meets.
C35_WitnessAfterSpill ==
    /\ lastOp = "spill" /\ error = "none"
    /\ tableExists /\ NumDistinct(table) = 0 /\ inputSpiller
    /\ ~noMoreInput /\ numBatches = 1

\* ------------------------------------------------------------------ C36
\* addInput over pre-grouped keys, with the batch kept for the properties.
AddInputLogged ==
    /\ Ready
    /\ ~noMoreInput
    /\ numBatches < BatchLimit
    /\ ret # "false"
    /\ \E input \in InputBatches, pool \in PoolChoices :
        /\ cfg.preGrouped => IsPreGrouped(reference, input)
        /\ Commit(addInput([Self EXCEPT !.lastInput = input], input, pool))
        /\ reference' = Feed(reference, input)
        /\ numBatches' = numBatches + 1
        /\ lastOp' = "addInput"
        /\ UNCHANGED <<phase, args, cfg, spilledAfterDenial>>

NextHasOutput ==
    \/ ConstructPreGrouped
    \/ AddInputLogged
    \/ NoMoreInput
    \/ GetOutput
    \/ ResetIterator

SpecHasOutput == Init /\ [][NextHasOutput]_vars

\* C36: hasOutput() is true exactly when noMoreInput has been called or rows
\* of pre-grouped input are deferred.  noMoreInput_ is set by noMoreInput and
\* by nothing else, and never reset, so hasOutput() stays true from then on;
\* an addInput that returns leaves hasOutput() true exactly when its batch
\* had a run boundary: true after a batch with a boundary, false again after
\* a batch without one, which consumed the deferred rows and deferred none.
C36_HasOutput ==
    /\ [](phase = "Constructed" =>
             /\ hasOutput(Self) <=> (noMoreInput \/ remainingInput # << >>)
             /\ hasRemaining <=> remainingInput # << >>)
    /\ [][lastOp' = "noMoreInput" => noMoreInput']_vars
    /\ [][(~noMoreInput /\ noMoreInput') => lastOp' = "noMoreInput"]_vars
    /\ [][noMoreInput => (noMoreInput' /\ lastOp' # "addInput")]_vars
    /\ [][(lastOp' = "addInput" /\ error' = "none") =>
             /\ ~noMoreInput'
             /\ hasRemaining' <=> LastBoundary(lastInput') > 0
             /\ hasRemaining' =>
                   /\ remainingInput' = lastInput'
                   /\ firstRemainingRow' = LastBoundary(lastInput')]_vars

\* The second addInput, with a batch without a run boundary, has consumed the
\* rows the first one deferred: hasOutput() is false again.
C36_Witness ==
    /\ lastOp = "addInput" /\ error = "none"
    /\ numBatches = 2 /\ numInputRows = 4
    /\ Cardinality(RefKeys) = 3
    /\ LastBoundary(lastInput) = 0
    /\ ~hasOutput(Self)

\* An addInput found a run boundary: hasOutput() is true before noMoreInput.
C36_WitnessBoundary ==
    /\ lastOp = "addInput" /\ error = "none"
    /\ ~noMoreInput /\ hasRemaining /\ hasOutput(Self)

\* hasOutput() is still true after the getOutput that returned false.
C36_WitnessAtEnd ==
    /\ lastOp = "getOutput" /\ error = "none" /\ ret = "false"
    /\ noMoreInput /\ ~hasRemaining /\ hasOutput(Self)

\* ------------------------------------------------------------------ C37
\* The files a step adds to partition p + 1: their positions in the list of
\* the partition, which are their stream ids plus one.
NewFiles(p) == (Len(spillFiles[p]) + 1)..Len(spillFiles'[p])

\* C37: without aggregates, the per-partition file counts are recorded by the
\* first spill that writes data, as the number of files each partition holds
\* right after it; they have 2^numPartitionBits entries whose sum is greater
\* than zero; no later step changes them; and every file a later spill writes
\* comes after the files counted, so that its stream id is at or above the
\* count of its partition.
C37_DistinctFileCounts ==
    /\ [](numDistinctSpillFilesPerPartition # << >> =>
             /\ isDistinct
             /\ Len(numDistinctSpillFilesPerPartition) = Pow2(NumPartitionBits)
             /\ SumSeq(numDistinctSpillFilesPerPartition) > 0
             /\ \A p \in DOMAIN spillFiles :
                   numDistinctSpillFilesPerPartition[p] <= Len(spillFiles[p]))
    /\ []((phase = "Constructed" /\ error = "none" /\ isDistinct
              /\ spillFiles # NoFiles) =>
             numDistinctSpillFilesPerPartition # << >>)
    /\ [][(numDistinctSpillFilesPerPartition = << >>
              /\ numDistinctSpillFilesPerPartition' # << >>) =>
             /\ spillFiles = NoFiles /\ spillFiles' # NoFiles
             /\ numDistinctSpillFilesPerPartition' =
                    [p \in DOMAIN spillFiles' |-> Len(spillFiles'[p])]]_vars
    /\ [][numDistinctSpillFilesPerPartition # << >> =>
             /\ UNCHANGED numDistinctSpillFilesPerPartition
             /\ \A p \in DOMAIN spillFiles :
                   /\ Len(spillFiles'[p]) >= Len(spillFiles[p])
                   /\ SubSeq(spillFiles'[p], 1, Len(spillFiles[p]))
                          = spillFiles[p]
                   /\ \A i \in NewFiles(p) :
                         i - 1 >= numDistinctSpillFilesPerPartition[p]]_vars

\* A later spill wrote a file into a partition whose count was recorded: its
\* stream id is the count.
C37_Witness ==
    /\ phase = "Constructed" /\ error = "none" /\ isDistinct
    /\ numDistinctSpillFilesPerPartition # << >>
    /\ \E p \in DOMAIN spillFiles :
          /\ numDistinctSpillFilesPerPartition[p] > 0
          /\ Len(spillFiles[p]) > numDistinctSpillFilesPerPartition[p]

\* ------------------------------------------------------------------ C38
\* A keyed aggregation without aggregates: with or without a spill config,
\* or with one global grouping set and the group-id key column.
DistinctArgs ==
    { a \in CtorArgs :
        /\ a.numKeys = 1 /\ ~a.preGrouped /\ a.aggregates = << >>
        /\ ~a.isPartial /\ a.isRawInput
        /\ \/ a.globalGroupingSets = << >> /\ a.groupIdChannel = 0
           \/ /\ Len(a.globalGroupingSets) = 1 /\ a.groupIdChannel = 1
              /\ ~a.spillConfig }

ConstructDistinct ==
    phase = "Uninitialized" /\ \E a \in DistinctArgs : Construct(a)

\* getOutput whenever hasOutput(), whether or not the grouping set has
\* spilled; the caller stops when getOutput has returned false after the end
\* of the input.
GetOutputAny ==
    /\ Ready
    /\ hasOutput(Self)
    /\ ~(noMoreInput /\ ret = "false")
    /\ \E maxOutputRows \in 1..MaxOutputRows, byteRows \in 1..MaxOutputRows,
          tieBreak \in {"low", "high"}, outcome \in OutcomeChoices :
        /\ Commit(GetOutputOutcome(maxOutputRows, byteRows, tieBreak, outcome))
        /\ lastOp' = "getOutput"
        /\ UNCHANGED <<phase, args, cfg, reference, numBatches,
                       spilledAfterDenial>>

\* spill(rowIterator) once all input has arrived, whatever the aggregates.
SpillOutputAny ==
    /\ Ready
    /\ cfg.spillConfig /\ ~cfg.isPartial /\ ~cfg.isGlobal
    /\ noMoreInput
    /\ ~hasSpilled(Self)
    /\ Commit(spillRowIterator(Self))
    /\ lastOp' = "spillOutput"
    /\ UNCHANGED <<phase, args, cfg, reference, numBatches,
                   spilledAfterDenial>>

NextDistinct ==
    \/ ConstructDistinct
    \/ AddInput
    \/ Spill
    \/ NoMoreInput
    \/ SpillOutputAny
    \/ GetOutputAny

SpecDistinct == Init /\ [][NextDistinct]_vars

\* A getOutput call of a keyed grouping set without aggregates to which the
\* default output of the global grouping sets does not apply.
DistinctGetOutput ==
    /\ lastOp' = "getOutput"
    /\ isDistinct /\ ~cfg.isGlobal
    /\ ~hasDefaultGlobalGroupingSetOutput(Self)

\* C38 (as amended): for a keyed grouping set without aggregates, when the
\* default output of the global grouping sets does not apply: getOutput
\* before any spill fails with a fatal check and leaves the table as it is; a
\* getOutput that returns rows is one of merge recovery after an input
\* spill; and after an output spill getOutput returns no row: the merge fails
\* with a fatal check when the output spill wrote a file, and getOutput
\* returns false, without a merge, when it wrote none.
C38_DistinctOutput ==
    /\ [][(DistinctGetOutput /\ ~hasSpilled(Self)) =>
             /\ error' = "getOutput: isDistinct()"
             /\ ret' = "error" /\ result' = << >>
             /\ UNCHANGED <<table, tableExists, emitted>>]_vars
    /\ [][(DistinctGetOutput /\ ret' = "true") =>
             /\ inputSpiller /\ ~outputSpiller
             /\ hasMerge' \/ outputSpillPartition' # -1
             /\ error' = "none"]_vars
    /\ [][(DistinctGetOutput /\ outputSpiller) =>
             /\ ret' # "true" /\ UNCHANGED emitted
             /\ spillFiles # NoFiles =>
                   error' = "mergeNextWithoutAggregates: precondition"
             /\ spillFiles = NoFiles => (error' = "none" /\ ret' = "false")]_vars

\* C38 (as stated): getOutput before any spill fails with a fatal check,
\* output comes only from merge recovery after an input spill, and getOutput
\* after an output spill fails with a fatal check.
C38_OutputSpillAlwaysFatal ==
    /\ [][(DistinctGetOutput /\ ~hasSpilled(Self)) =>
             error' = "getOutput: isDistinct()"]_vars
    /\ [][(DistinctGetOutput /\ ret' = "true") =>
             (inputSpiller /\ ~outputSpiller)]_vars
    /\ [][(DistinctGetOutput /\ outputSpiller) => error' # "none"]_vars

\* getOutput after an output spill that wrote no file returned false.
C38_WitnessEmptyOutputSpill ==
    /\ lastOp = "getOutput" /\ isDistinct /\ outputSpiller
    /\ spillFiles = NoFiles /\ error = "none" /\ ret = "false"

\* getOutput on a table that holds a key, before any spill, failed.
C38_Witness ==
    /\ lastOp = "getOutput" /\ isDistinct /\ ~cfg.isGlobal
    /\ error = "getOutput: isDistinct()"
    /\ ~inputSpiller /\ ~outputSpiller
    /\ NumDistinct(table) > 0 /\ noMoreInput

\* getOutput of merge recovery after an input spill returned keys.
C38_WitnessMerge ==
    /\ lastOp = "getOutput" /\ isDistinct /\ error = "none"
    /\ inputSpiller /\ ret = "true" /\ Len(result) > 0

\* getOutput after an output spill failed in the merge.
C38_WitnessOutputSpill ==
    /\ lastOp = "getOutput" /\ isDistinct /\ outputSpiller
    /\ error = "mergeNextWithoutAggregates: precondition"

\* The default output of the global grouping sets, without aggregates.
C38_WitnessDefaultOutput ==
    /\ lastOp = "getOutput" /\ isDistinct /\ error = "none"
    /\ cfg.globalGroupingSets # << >> /\ ret = "true"

\* ------------------------------------------------------------------ C34
\* RowContainer::kNumAccumulatorFlags: a null bit and an initialized bit.
kNumAccumulatorFlags == 2

\* sizeof(int32_t), the row-size field.
RowSizeBytes == 4

\* bits::nbytes: the bytes that hold a number of bits.
nbytes(bits) == (bits + 7) \div 8

\* A rounding that leaves the offset where it is.
roundUpNone(value, factor) == value

\* bits::roundUp: the least multiple of factor at or above value.
roundUp(value, factor) == ((value + factor - 1) \div factor) * factor

\* RowContainer::combineAlignments: the larger of two powers of two.
combineAlignments(a, b) == Max(a, b)

\* RowContainer::nullByte, nullMask, initializedByte, initializedMask: the
\* byte and the mask of the null bit at a flag offset, and of the initialized
\* bit, which is the next bit.
nullByte(nullOffset) == nullOffset \div 8

nullMask(nullOffset) == Pow2(nullOffset % 8)

initializedByte(nullOffset) == nullByte(nullOffset + 1)

initializedMask(nullOffset) == nullMask(nullOffset + 1)

\* The accumulators the layout is computed for: the functions of aggregates_
\* in order, then the accumulator of sortedAggregations_, then those of
\* distinctAggregations_, each with its alignment and its fixed width.
MaxAccumulators == 5

Alignments == {1, 2, 8}

FixedWidthSizes == {1, 5}

AccumulatorLists ==
    UNION {[1..n -> [alignment : Alignments, fixedWidthSize : FixedWidthSizes]] :
              n \in 0..MaxAccumulators}

\* One turn of the loops of initializeGlobalAggregation (459-521): the offset
\* is rounded up to the alignment of the accumulator, the accumulator gets
\* its offsets, and the offset, the flag offset and the alignment move on.
placeAccumulator(st, accumulator) ==
    LET offset == roundUp(st.offset, accumulator.alignment)
    IN [st EXCEPT
          !.setOffsets =
              Append(@, [offset |-> offset,
                         nullByte |-> nullByte(st.accumulatorFlagsOffset),
                         nullMask |-> nullMask(st.accumulatorFlagsOffset),
                         initializedByte |->
                             initializedByte(st.accumulatorFlagsOffset),
                         initializedMask |->
                             initializedMask(st.accumulatorFlagsOffset),
                         rowSizeOffset |-> st.rowSizeOffset]),
          !.offset = offset + accumulator.fixedWidthSize,
          !.accumulatorFlagsOffset = @ + kNumAccumulatorFlags,
          !.alignment = combineAlignments(accumulator.alignment, @)]

\* The layout part of initializeGlobalAggregation (443-523): the flag bytes,
\* the row-size field, the accumulators, and the allocation of the row.
globalRowLayout(accumulatorList) ==
    LET rowSizeOffset == nbytes(Len(accumulatorList) * kNumAccumulatorFlags)
        placed(st) ==
            [setOffsets |-> st.setOffsets,
             rowSizeOffset |-> st.rowSizeOffset,
             allocateFixed |-> [size |-> st.offset,
                                alignment |-> st.alignment]]
    IN placed(FoldLeft(placeAccumulator,
                       [offset |-> rowSizeOffset + RowSizeBytes,
                        accumulatorFlagsOffset |-> 0,
                        alignment |-> 1,
                        rowSizeOffset |-> rowSizeOffset,
                        setOffsets |-> << >>],
                       accumulatorList))

\* The list of accumulators is drawn; nothing else has happened.
InitLayout ==
    /\ phase = "Uninitialized"
    /\ args = NoArgs
    /\ cfg = NoMembers
    /\ tableExists = FALSE
    /\ table = << >>
    /\ numInputRows = 0
    /\ noMoreInput = FALSE
    /\ hasRemaining = FALSE
    /\ remainingInput = << >>
    /\ firstRemainingRow = 0
    /\ inputSpiller = FALSE
    /\ outputSpiller = FALSE
    /\ spillFiles = NoFiles
    /\ numDistinctSpillFilesPerPartition = << >>
    /\ spillFinished = FALSE
    /\ spillPartitionSet = {}
    /\ outputSpillPartition = -1
    /\ hasMerge = FALSE
    /\ merge = << >>
    /\ mergeRowsExists = FALSE
    /\ globalAggregationInitialized = FALSE
    /\ globalRow = << >>
    /\ error = "none"
    /\ iterator = FreshIterator
    /\ ret = "none"
    /\ result = << >>
    /\ emitted = << >>
    /\ reference = NoReference
    /\ accumulated = 0
    /\ numBatches = 0
    /\ numDenied = 0
    /\ numGlobalInit = 0
    /\ preSpillKeys = {}
    /\ spilledAfterDenial = FALSE
    /\ outputReservation = FALSE
    /\ abandonedPartialAggregation = FALSE
    /\ allSupportToIntermediate = FALSE
    /\ intermediateRowsExists = FALSE
    /\ intermediateAccumulators = {}
    /\ intermediateRows = 0
    /\ lastInput = << >>
    /\ tableStats = NoStats
    /\ numRehashes = 0
    /\ maxBytesArg = 0
    /\ uninitializedUse = FALSE
    /\ sortedInputRows = 0
    /\ allocatorFrozen = FALSE
    /\ allocatorMisuse = {}
    /\ nonReclaimableSection = TRUE
    /\ sectionMisuse = {}
    /\ numFinishSpill = 0
    /\ openedPartitions = << >>
    /\ getOutputTick = FALSE
    /\ lastAddCalls = {}
    /\ lastMemory = NoMemory
    /\ lastReserveCalls = << >>
    /\ lastScratchReads = {}
    /\ lastOutOfRange = FALSE
    /\ mergeRowsData = << >>
    /\ lastScratchRows = NoScratchRows
    /\ accumulatorsArg \in AccumulatorLists
    /\ globalLayout = NoLayout
    /\ lastOp = "none"

InitializeGlobalLayout ==
    /\ lastOp = "none"
    /\ Commit([Self EXCEPT
                  !.globalLayout = globalRowLayout(accumulatorsArg)])
    /\ lastOp' = "initializeGlobalAggregation"
    /\ UNCHANGED <<phase, args, cfg, reference, numBatches,
                   spilledAfterDenial>>

SpecLayout == InitLayout /\ [][InitializeGlobalLayout]_vars

\* The bytes of accumulator k: [offset, offset + fixedWidthSize).
AccumulatorBytes(k) ==
    globalLayout.setOffsets[k].offset ..
        (globalLayout.setOffsets[k].offset
             + accumulatorsArg[k].fixedWidthSize - 1)

\* The bits of the flag bytes a byte and a mask name.
FlagBit(byte, mask) ==
    CHOOSE b \in 0..(8 * byte + 7) : b \div 8 = byte /\ Pow2(b % 8) = mask

FlagBytes == nbytes(kNumAccumulatorFlags * Len(accumulatorsArg))

\* C34: in the layout of the global row, for every list of accumulators with
\* power-of-two alignments: the offset of each accumulator is a multiple of
\* its alignment; the byte ranges of the accumulators are pairwise disjoint
\* and start at or after the flag bytes and the four bytes of the row size;
\* the k-th accumulator (from 0) has the flag bits 2k (null) and 2k + 1
\* (initialized), inside the flag bytes; the row is allocated with a size
\* that covers every accumulator and an alignment that is a multiple of every
\* accumulator's.
C34_GlobalRowLayout ==
    lastOp = "initializeGlobalAggregation" =>
        /\ Len(globalLayout.setOffsets) = Len(accumulatorsArg)
        /\ globalLayout.rowSizeOffset = FlagBytes
        /\ \A k \in DOMAIN accumulatorsArg :
              LET a == globalLayout.setOffsets[k]
              IN /\ a.offset % accumulatorsArg[k].alignment = 0
                 /\ a.offset >= FlagBytes + RowSizeBytes
                 /\ a.rowSizeOffset = FlagBytes
                 /\ FlagBit(a.nullByte, a.nullMask) = 2 * (k - 1)
                 /\ FlagBit(a.initializedByte, a.initializedMask)
                        = 2 * (k - 1) + 1
                 /\ a.nullByte < FlagBytes /\ a.initializedByte < FlagBytes
                 /\ a.offset + accumulatorsArg[k].fixedWidthSize
                        <= globalLayout.allocateFixed.size
                 /\ globalLayout.allocateFixed.alignment
                        % accumulatorsArg[k].alignment = 0
                 /\ \A j \in DOMAIN accumulatorsArg :
                       j # k =>
                           AccumulatorBytes(j) \cap AccumulatorBytes(k) = {}

\* Five accumulators, whose flags take two bytes; one had to be moved up to
\* its alignment.
C34_Witness ==
    /\ lastOp = "initializeGlobalAggregation"
    /\ Len(accumulatorsArg) = MaxAccumulators
    /\ FlagBytes = 2
    /\ \E k \in 2..Len(accumulatorsArg) :
          globalLayout.setOffsets[k].offset >
              globalLayout.setOffsets[k - 1].offset
                  + accumulatorsArg[k - 1].fixedWidthSize

====
